---- MODULE Spec2Model ----
(***************************************************************************)
(* Clawyard order pipeline: the identity / replay / payment gates, the     *)
(* ledger commit and the best-effort fulfillment, upload and mint steps of *)
(* POST /api/order and POST /api/order/custom, and the order lookup route. *)
(*                                                                         *)
(* A request handler is an async function: it runs atomically between two  *)
(* awaits, and other requests interleave at every await.  Each action      *)
(* below is one such atomic stretch of a handler.  Prices and totals are   *)
(* JavaScript Numbers, token amounts integers of micro-USDC (6 decimals);  *)
(* a request body gives its shipping cost as a numeral of cents.           *)
(*                                                                         *)
(* The repository holds two copies of the server.  The routes modelled are *)
(* those of the first (server.js: replay pre-check, uploads); of the       *)
(* second, older copy only the lookup route is modelled (LookupLegacy).    *)
(* Storage faults of the ledger other than the unique-index violation are  *)
(* not modelled.                                                           *)
(***************************************************************************)
EXTENDS Integers, Sequences, FiniteSets, TLC

\* Number of order requests that are handled (concurrently).
NumReqs == 2

Reqs == 1..NumReqs

\* JavaScript null / undefined for string-valued fields, and for id-valued ones.
None == "none"
Null == <<>>
Some(v) == <<v>>

----------------------------------------------------------------------------
(* Strings: addresses and transaction hashes are hex strings whose letters *)
(* may be spelled in either case.                                          *)

\* String.prototype.toLowerCase on the strings of the model.
ToLower(s) ==
  CASE s = "0xA1" -> "0xa1"
    [] s = "0xAA" -> "0xaa"
    [] s = "0xB2" -> "0xb2"
    [] s = "0xUSDC" -> "0xusdc"
    [] s = "0xC1A3" -> "0xc1a3"
    [] OTHER -> s

----------------------------------------------------------------------------
(* JavaScript numbers.  Every amount of money in the handlers is a Number: *)
(* an IEEE-754 binary64 value, rounded to nearest (ties to even) after     *)
(* each operation.  The values here are positive and far from the ends of  *)
(* the exponent range, so a Number is a 53-digit binary significand and an *)
(* exponent.  Significands are computed exactly, on naturals of any size.  *)

\* A natural of any size: its digits in base Limb, lowest first, the last
\* one not 0 (the empty sequence is 0).
Limb == 2 ^ 15

BigTrim(a) ==
  LET nz == {i \in 1..Len(a) : a[i] # 0}
  IN IF nz = {} THEN << >>
     ELSE SubSeq(a, 1, CHOOSE i \in nz : \A j \in nz : j <= i)

\* A natural below 2^31 as a natural of any size, and back.
BigOfNat(n) == BigTrim([i \in 1..3 |-> (n \div (Limb ^ (i - 1))) % Limb])

LimbAt(a, i) == IF i <= Len(a) THEN a[i] ELSE 0

NatOfBig(a) == LimbAt(a, 1) + Limb * LimbAt(a, 2) + Limb * Limb * LimbAt(a, 3)

MaxLen(a, b) == IF Len(a) < Len(b) THEN Len(b) ELSE Len(a)

\* a + b, with c[i] the carry out of digit i
BigAdd(a, b) ==
  LET n == MaxLen(a, b)
      c[i \in 0..n] ==
        IF i = 0 THEN 0 ELSE (LimbAt(a, i) + LimbAt(b, i) + c[i - 1]) \div Limb
  IN BigTrim([i \in 1..(n + 1) |->
                IF i <= n THEN (LimbAt(a, i) + LimbAt(b, i) + c[i - 1]) % Limb
                ELSE c[n]])

\* a - b for a >= b, with c[i] the borrow out of digit i
BigSub(a, b) ==
  LET c[i \in 0..Len(a)] ==
        IF i = 0 THEN 0
        ELSE IF a[i] - LimbAt(b, i) - c[i - 1] < 0 THEN 1 ELSE 0
  IN BigTrim([i \in 1..Len(a) |-> (a[i] - LimbAt(b, i) - c[i - 1]) % Limb])

\* a * d for a natural d below Limb, with c[i] the carry out of digit i
BigMulSmall(a, d) ==
  LET n == Len(a)
      c[i \in 0..n] == IF i = 0 THEN 0 ELSE (a[i] * d + c[i - 1]) \div Limb
  IN BigTrim([i \in 1..(n + 1) |->
                IF i <= n THEN (a[i] * d + c[i - 1]) % Limb ELSE c[n]])

\* a * b, with p[j] the product of a and the j lowest digits of b
BigMul(a, b) ==
  LET p[j \in 0..Len(b)] ==
        IF j = 0 THEN << >>
        ELSE BigAdd(p[j - 1],
                    IF BigMulSmall(a, b[j]) = << >> THEN << >>
                    ELSE [i \in 1..(j - 1) |-> 0] \o BigMulSmall(a, b[j]))
  IN p[Len(b)]

\* Quotient and remainder of a by a natural d below Limb, with r[i] the
\* remainder of the i highest digits.
BigDivRem(a, d) ==
  LET n == Len(a)
      r[i \in 0..n] == IF i = 0 THEN 0 ELSE (r[i - 1] * Limb + a[n - i + 1]) % d
  IN [q |-> BigTrim([k \in 1..n |-> (r[n - k] * Limb + a[k]) \div d]),
      r |-> r[n]]

\* a < b
BigLess(a, b) ==
  \/ Len(a) < Len(b)
  \/ /\ Len(a) = Len(b)
     /\ \E i \in 1..Len(a) :
          /\ a[i] < b[i]
          /\ \A j \in (i + 1)..Len(a) : a[j] = b[j]

\* The number of binary digits of a, and its i-th binary digit (from 1).
BitLen(a) ==
  IF a = << >> THEN 0
    ELSE 15 * (Len(a) - 1) + (CHOOSE k \in 1..15 : 2 ^ (k - 1) <= a[Len(a)] /\ a[Len(a)] < 2 ^ k)

BitAt(a, i) == (LimbAt(a, ((i - 1) \div 15) + 1) \div (2 ^ ((i - 1) % 15))) % 2

\* a * 2^n and floor(a / 2^n)
BigShl(a, n) ==
  IF a = << >> THEN << >>
    ELSE [i \in 1..(n \div 15) |-> 0] \o BigMulSmall(a, 2 ^ (n % 15))

BigShr(a, n) ==
  LET t == IF n \div 15 >= Len(a) THEN << >> ELSE SubSeq(a, (n \div 15) + 1, Len(a))
      r == n % 15
  IN BigTrim([i \in 1..Len(t) |->
                (t[i] \div (2 ^ r)) + (LimbAt(t, i + 1) % (2 ^ r)) * (2 ^ (15 - r))])

\* A Number x > 0 is m * 2^e with m of exactly 53 binary digits; 0 is Zero.
Zero == [m |-> << >>, e |-> 0]

\* The Number nearest to M * 2^e (to a little more than M * 2^e, if sticky):
\* the 53 leading digits of M, rounded up when the digits dropped are more
\* than half a unit, or half a unit and the last digit kept is odd.
RoundToNumber(M, e, sticky) ==
  LET L == BitLen(M)
      d == L - 53
      kept == BigShr(M, d)
      more == sticky \/ \E i \in 1..(d - 1) : BitAt(M, i) = 1
      up == BitAt(M, d) = 1 /\ (more \/ BitAt(kept, 1) = 1)
      k == IF up THEN BigAdd(kept, <<1>>) ELSE kept
  IN IF L = 0 THEN Zero
     ELSE IF L <= 53 THEN [m |-> BigShl(M, 53 - L), e |-> e - (53 - L)]
     ELSE IF BitLen(k) = 54 THEN [m |-> BigShr(k, 1), e |-> e + d + 1]
     ELSE [m |-> k, e |-> e + d]

\* floor(a / 10^k), and whether the division left a remainder; f[j] is
\* the same for 10^j.
BigDivPow10(a, k) ==
  LET f[j \in 0..k] ==
        IF j = 0 THEN [q |-> a, inexact |-> FALSE]
        ELSE LET p == f[j - 1]
                 qr == BigDivRem(p.q, 10)
             IN [q |-> qr.q, inexact |-> p.inexact \/ qr.r # 0]
  IN f[k]

\* The Number nearest to n / 10^k: what reading the decimal numeral of
\* n / 10^k gives, and what dividing the whole Number n by 10^k gives.
NumberOfDecimal(n, k) ==
  LET qr == BigDivPow10(BigShl(BigOfNat(n), 90), k)
  IN RoundToNumber(qr.q, -90, qr.inexact)

NumberOfNat(n) == NumberOfDecimal(n, 0)

\* x * y, x + y, x - y (for x >= y) and x < y on Numbers
NumberMul(x, y) == RoundToNumber(BigMul(x.m, y.m), x.e + y.e, FALSE)

MinExp(x, y) == IF x.e < y.e THEN x.e ELSE y.e

NumberAdd(x, y) ==
  IF x = Zero THEN y ELSE IF y = Zero THEN x
  ELSE RoundToNumber(BigAdd(BigShl(x.m, x.e - MinExp(x, y)),
                            BigShl(y.m, y.e - MinExp(x, y))),
                     MinExp(x, y), FALSE)

NumberSub(x, y) ==
  IF y = Zero THEN x
  ELSE RoundToNumber(BigSub(BigShl(x.m, x.e - MinExp(x, y)),
                            BigShl(y.m, y.e - MinExp(x, y))),
                     MinExp(x, y), FALSE)

NumberLess(x, y) ==
  IF y = Zero THEN FALSE ELSE IF x = Zero THEN TRUE
  ELSE BigLess(BigShl(x.m, x.e - MinExp(x, y)), BigShl(y.m, y.e - MinExp(x, y)))

\* floor(x * 100 + 1/2): the integer n for which n / 10^2 - x is nearest to
\* zero, the larger one of two.
NearestHundredth(x) ==
  LET N == BigMulSmall(x.m, 100)
  IN IF x = Zero THEN 0
     ELSE IF x.e >= 0 THEN NatOfBig(BigShl(N, x.e))
     ELSE NatOfBig(BigShr(BigAdd(N, BigShl(<<1>>, (0 - x.e) - 1)), 0 - x.e))

----------------------------------------------------------------------------
(* The collaborators' fixed data.                                          *)

\* ERC-8004 registry: ownerOf(tokenId); agent "1" exists, agent "2" does not.
RegistryOwner == [a \in {"1"} |-> "0xA1"]

\* The owners the registry holds now: a token can be transferred.
VARIABLE registry

USDC_ADDRESS == "0xUSDC"
USDC_DECIMALS == 6
CLAWYARD_WALLET == "0xC1A3"
TRANSFER_TOPIC == "Transfer(address,address,uint256)"
TolerancePercent == 1

\* The stickers of the catalog (id -> unit price, active flag); the price is
\* the Number read from the numeral 4.20.
StickerPriceCents == 420
Catalog ==
  [s \in {"heartbeat-ok", "retired"} |->
     [basePrice |-> NumberOfDecimal(StickerPriceCents, 2),
      active |-> (s = "heartbeat-ok")]]

\* const basePrice = 4.20: the fixed price of a custom sticker.
basePrice == NumberOfDecimal(420, 2)

\* Settlement receipts of the chain, by (lower-case) transaction hash.
\*   0xaa: an unrelated token transfer, then 7.92 USDC from 0xa1 to the store
\*   0xbb: 4.20 USDC from 0xb2 to the store
\*   0xcc: a reverted transaction
\*   0xe1 .. 0xe8: one transfer from 0xa1 to the store, of 9.90, 9.89, 10.50,
\*                 4.653, 4.2372, 4.2273, 12.474 and 0.48 USDC
Receipts ==
  [h \in {"0xaa", "0xbb", "0xcc", "0xe1", "0xe2", "0xe3", "0xe4", "0xe5", "0xe6",
          "0xe7", "0xe8"} |->
     CASE h = "0xaa" ->
            [status |-> "success",
             logs |-> << [address |-> "0xdai", topic0 |-> TRANSFER_TOPIC,
                          from |-> "0xb2", to |-> "0xc1a3", data |-> 9990000],
                         [address |-> "0xusdc", topic0 |-> TRANSFER_TOPIC,
                          from |-> "0xa1", to |-> "0xc1a3", data |-> 7920000] >>]
       [] h = "0xbb" ->
            [status |-> "success",
             logs |-> << [address |-> "0xusdc", topic0 |-> TRANSFER_TOPIC,
                          from |-> "0xb2", to |-> "0xc1a3", data |-> 4200000] >>]
       [] h = "0xcc" ->
            [status |-> "reverted", logs |-> << >>]
       [] OTHER ->
            [status |-> "success",
             logs |-> << [address |-> "0xusdc", topic0 |-> TRANSFER_TOPIC,
                          from |-> "0xa1", to |-> "0xc1a3",
                          data |-> CASE h = "0xe1" -> 9900000
                                     [] h = "0xe2" -> 9890000
                                     [] h = "0xe3" -> 10500000
                                     [] h = "0xe4" -> 4653000
                                     [] h = "0xe5" -> 4237200
                                     [] h = "0xe6" -> 4227300
                                     [] h = "0xe7" -> 12474000
                                     [] OTHER -> 480000] >>]]

\* client.getTransactionReceipt: the node reads the hash as a number, so the
\* case of its hex digits does not matter; Null for a hash the chain does not
\* know.
GetTransactionReceipt(txHash) ==
  IF ToLower(txHash) \in DOMAIN Receipts THEN Receipts[ToLower(txHash)] ELSE Null

----------------------------------------------------------------------------
(* Identity Verifier (agent-verify.js).                                    *)

\* A comparison that accepts every wallet.
OwnerMatchesAny(owner, walletAddress) == TRUE

\* owner.toLowerCase() === walletAddress.toLowerCase()
OwnerMatches(owner, walletAddress) == ToLower(owner) = ToLower(walletAddress)

\* The agent ids that BigInt(agentId) converts; it throws on any other.
TokenIds == {"1", "2"}

\* The message of the error thrown in the try block of verifyAgent, None
\* when readContract returns the owner: BigInt throws on an id that is no
\* number, the transport fails (rpcOk is whether the registry answered), or
\* ownerOf reverts for a token that does not exist.
ThrownMessage(agentId, rpcOk) ==
  IF agentId \notin TokenIds THEN "Cannot convert to a BigInt"
  ELSE IF ~rpcOk THEN "HTTP request failed"
  ELSE IF agentId \notin DOMAIN registry THEN "ERC721: invalid token ID"
  ELSE None

\* A catch that takes every error for a token that does not exist.
IsNonexistentAlways(message) == TRUE

\* error.message?.includes('ERC721') || error.message?.includes('nonexistent token')
IsNonexistent(message) ==
  message \in {"ERC721: invalid token ID", "owner query for nonexistent token"}

\* A result that keeps the owner to itself.
NotOwnerUndisclosed(owner) ==
  [verified |-> FALSE, error |-> "does not own agent", owner |-> None]

\* { verified: false, error: `Wallet ... does not own agent ... Owner is ${owner}.`, owner }
NotOwner(owner) ==
  [verified |-> FALSE, error |-> "does not own agent", owner |-> owner]

\* A verifier that remembers the owner it read when the process started.
OwnerOfCached(agentId) == RegistryOwner[agentId]

\* await client.readContract({ functionName: 'ownerOf', args: [tokenId] })
OwnerOf(agentId) == registry[agentId]

\* verifyAgent(agentId, walletAddress); rpcOk is whether the registry answered.
verifyAgent(agentId, walletAddress, rpcOk) ==
  IF ThrownMessage(agentId, rpcOk) # None
    THEN IF IsNonexistent(ThrownMessage(agentId, rpcOk))
           THEN [verified |-> FALSE, error |-> "does not exist", owner |-> None]
           ELSE [verified |-> FALSE, error |-> "Verification failed", owner |-> None]
  ELSE IF ~OwnerMatches(OwnerOf(agentId), walletAddress)
    THEN NotOwner(OwnerOf(agentId))
  ELSE [verified |-> TRUE, error |-> None, owner |-> OwnerOf(agentId)]

----------------------------------------------------------------------------
(* Payment Verifier (payment.js).                                          *)

\* The predicate of receipt.logs.find: a USDC Transfer event to the store.
IsStoreTransfer(log) ==
  /\ ToLower(log.address) = ToLower(USDC_ADDRESS)
  /\ log.topic0 = TRANSFER_TOPIC
  /\ ToLower(log.to) = ToLower(CLAWYARD_WALLET)

\* A scan that only looks at the first event of the receipt.
FindTransferLogAtHead(logs) ==
  IF Len(logs) > 0 /\ IsStoreTransfer(logs[1]) THEN 1 ELSE 0

\* Array.prototype.find: the index of the first matching log, 0 if none.
FindTransferLog(logs) ==
  IF \E i \in 1..Len(logs) : IsStoreTransfer(logs[i])
    THEN CHOOSE i \in 1..Len(logs) :
           /\ IsStoreTransfer(logs[i])
           /\ \A j \in 1..(i - 1) : ~IsStoreTransfer(logs[j])
    ELSE 0

\* Number.prototype.toFixed(2): the digits before the point, then the two
\* after it.
ToFixed2(x) ==
  <<NearestHundredth(x) \div 100, (NearestHundredth(x) \div 10) % 10,
    NearestHundredth(x) % 10>>

\* parseFloat(formatUnits(amountRaw, USDC_DECIMALS)): the Number nearest to
\* the amount of amountRaw micro-USDC.
AmountUSD(amountRaw) == NumberOfDecimal(amountRaw, USDC_DECIMALS)

\* expectedAmountUSD * (1 - tolerancePercent / 100)
MinAmount(expectedAmountUSD, tolerancePercent) ==
  NumberMul(expectedAmountUSD,
            NumberSub(NumberOfNat(1), NumberOfDecimal(tolerancePercent, 2)))

\* A verifier that accepts any amount.
BelowMinimumNever(amountRaw, expectedAmountUSD, tolerancePercent) == FALSE

\* amountUSD < minAmount
BelowMinimum(amountRaw, expectedAmountUSD, tolerancePercent) ==
  NumberLess(AmountUSD(amountRaw), MinAmount(expectedAmountUSD, tolerancePercent))

NotVerified(why, amountRaw, sender) ==
  [verified |-> FALSE, error |-> why, from |-> sender, amount |-> amountRaw,
   transactionHash |-> None]

\* `Insufficient payment: expected $${...toFixed(2)}, received $${...toFixed(2)}`
Insufficient(expectedAmountUSD, amountRaw) ==
  <<"Insufficient payment", ToFixed2(expectedAmountUSD),
    ToFixed2(AmountUSD(amountRaw))>>

\* A verifier that does not read the status of the receipt.
VerifyReceiptAnyStatus(receipt, txHash, expectedAmountUSD) ==
  IF receipt = Null THEN NotVerified("Transaction not found", 0, None)
  ELSE
    LET k == FindTransferLog(receipt.logs)
    IN IF k = 0
         THEN NotVerified("No USDC transfer to Clawyard wallet found", 0, None)
       ELSE [verified |-> TRUE, error |-> None, from |-> receipt.logs[k].from,
             amount |-> receipt.logs[k].data, transactionHash |-> txHash]

\* The body of verifyPayment from the answer of getTransactionReceipt on.
VerifyReceipt(receipt, txHash, expectedAmountUSD) ==
  IF receipt = Null THEN NotVerified("Transaction not found", 0, None)
  ELSE IF receipt.status # "success"
    THEN NotVerified("Transaction failed", 0, None)
  ELSE
    LET k == FindTransferLog(receipt.logs)
    IN IF k = 0
         THEN NotVerified("No USDC transfer to Clawyard wallet found", 0, None)
       ELSE IF BelowMinimum(receipt.logs[k].data, expectedAmountUSD, TolerancePercent)
         THEN NotVerified(Insufficient(expectedAmountUSD, receipt.logs[k].data),
                          receipt.logs[k].data, receipt.logs[k].from)
       ELSE [verified |-> TRUE, error |-> None, from |-> receipt.logs[k].from,
             amount |-> receipt.logs[k].data, transactionHash |-> txHash]

\* verifyPayment(txHash, expectedAmountUSD); rpcOk is whether the call of the
\* node returned (it throws otherwise, and the catch answers).
verifyPayment(txHash, expectedAmountUSD, rpcOk) ==
  IF ~rpcOk THEN NotVerified("Verification failed", 0, None)
  ELSE VerifyReceipt(GetTransactionReceipt(txHash), txHash, expectedAmountUSD)

----------------------------------------------------------------------------
(* Order Ledger (database.js): the rows of table orders.                   *)

\* A table without the unique index.
UniqueIndexOff(rows, txHash) == FALSE

\* The unique index idx_orders_tx_hash (tx_hash not null) rejects the insert.
UniqueIndexViolated(rows, txHash) ==
  txHash # None /\ \E o \in rows : o.tx_hash = txHash

\* INSERT INTO orders; status and updated_at take the column defaults.  The
\* clock is not modelled: updated_at is "created_at" (the time of the
\* insert) until an UPDATE sets it to its CURRENT_TIMESTAMP.
createOrder(rows, orderId, orderData) ==
  rows \cup
    {[id |-> orderId,
      wallet |-> orderData.wallet,
      items |-> orderData.items,
      shipping_address |-> orderData.shippingAddress,
      total_usdc |-> orderData.totalUSDC,
      agent_id |-> orderData.agentId,
      tx_hash |-> orderData.paymentTxHash,
      printful_order_id |-> Null,
      attestation_uid |-> Null,
      status |-> "pending",
      updated_at |-> "created_at"]}

\* SELECT id FROM orders WHERE tx_hash = ?  (the rows found; empty is null)
getOrderByTxHash(rows, txHash) == {o \in rows : o.tx_hash = txHash}

\* SELECT * FROM orders WHERE id = ?, mapped to the returned object.
getOrder(rows, orderId) ==
  {[id |-> o.id, wallet |-> o.wallet, items |-> o.items,
    shippingAddress |-> o.shipping_address, totalUSDC |-> o.total_usdc,
    txHash |-> o.tx_hash, printfulOrderId |-> o.printful_order_id,
    attestationUID |-> o.attestation_uid, agentId |-> o.agent_id,
    status |-> o.status, updatedAt |-> o.updated_at] : o \in {x \in rows : x.id = orderId}}

\* result.changes > 0 of an UPDATE ... WHERE id = ?
Changed(rows, orderId) == \E o \in rows : o.id = orderId

\* An update without its WHERE clause.
updateOrderStatusEveryRow(rows, orderId, status) ==
  {[o EXCEPT !.status = status, !.updated_at = "CURRENT_TIMESTAMP"] : o \in rows}

\* UPDATE orders SET status = ?, updated_at = CURRENT_TIMESTAMP WHERE id = ?
updateOrderStatus(rows, orderId, status) ==
  {IF o.id = orderId
     THEN [o EXCEPT !.status = status, !.updated_at = "CURRENT_TIMESTAMP"]
     ELSE o : o \in rows}

\* An update that also resets the status, and does so on every row.
updateOrderPrintfulResetStatus(rows, orderId, printfulOrderId) ==
  {[o EXCEPT !.printful_order_id = IF o.id = orderId THEN printfulOrderId ELSE @,
             !.status = "pending",
             !.updated_at = "CURRENT_TIMESTAMP"] : o \in rows}

\* UPDATE orders SET printful_order_id = ?, updated_at = CURRENT_TIMESTAMP WHERE id = ?
updateOrderPrintful(rows, orderId, printfulOrderId) ==
  {IF o.id = orderId
     THEN [o EXCEPT !.printful_order_id = printfulOrderId,
                    !.updated_at = "CURRENT_TIMESTAMP"]
     ELSE o : o \in rows}

\* UPDATE orders SET attestation_uid = ?, updated_at = CURRENT_TIMESTAMP WHERE id = ?
updateOrderAttestation(rows, orderId, attestationUID) ==
  {IF o.id = orderId
     THEN [o EXCEPT !.attestation_uid = attestationUID,
                    !.updated_at = "CURRENT_TIMESTAMP"]
     ELSE o : o \in rows}

----------------------------------------------------------------------------
(* Receipt Minter (eas.js).                                                *)

\* The fields of the schema of the attestations, in its order.
CLAWYARD_SCHEMA == <<"orderId", "buyer", "items", "totalUSDC", "timestamp">>

\* Math.floor(x)
MathFloor(x) ==
  IF x = Zero THEN 0
  ELSE IF x.e >= 0 THEN NatOfBig(BigShl(x.m, x.e))
  ELSE NatOfBig(BigShr(x.m, 0 - x.e))

\* The data mintAttestation encodes for eas.attest: the fields of the schema
\* read from orderData, the total in micro-USDC; Null when a field is
\* undefined and the encoding throws.
EncodeData(orderData) ==
  IF \E i \in 1..Len(CLAWYARD_SCHEMA) : CLAWYARD_SCHEMA[i] \notin DOMAIN orderData
    THEN Null
  ELSE [f \in {CLAWYARD_SCHEMA[i] : i \in 1..Len(CLAWYARD_SCHEMA)} |->
          IF f = "totalUSDC"
            THEN MathFloor(NumberMul(orderData.totalUSDC, NumberOfNat(1000000)))
            ELSE orderData[f]]

\* mintAttestation(orderData): it reads orderData.totalUSDC and
\* orderData.timestamp; BigInt() of a value computed from undefined throws.
\* initOk / attestOk: whether initialize() and eas.attest() succeed.
mintAttestation(orderData, initOk, attestOk) ==
  IF ~initOk THEN [ok |-> FALSE, uid |-> Null]
  ELSE IF EncodeData(orderData) = Null
    THEN [ok |-> FALSE, uid |-> Null]
  ELSE IF ~attestOk THEN [ok |-> FALSE, uid |-> Null]
  ELSE [ok |-> TRUE, uid |-> Some(orderData.orderId)]

\* The service after its constructor.
EASService == [initialized |-> FALSE, schemaUID |-> Null]

\* ensureSchema(): a known schemaUID is returned; otherwise the schema is
\* registered with the registry, and the uid is the one the registry returns
\* or, when the registration is refused, the one computed from the schema.
ensureSchema(service) ==
  IF service.schemaUID # Null
    THEN [service |-> service, calls |-> {}]
  ELSE [service |-> [service EXCEPT !.schemaUID = Some("ClawyardPurchase")],
        calls |-> {"schemaRegistry.register"}]

----------------------------------------------------------------------------
(* Pricing.                                                                *)

\* !sticker || !sticker.active for some requested item
InvalidSticker(stickers) ==
  \E i \in 1..Len(stickers) :
    stickers[i].id \notin DOMAIN Catalog \/ ~Catalog[stickers[i].id].active

\* The orderItems built by the pricing loop.
PriceItems(stickers) ==
  [i \in 1..Len(stickers) |->
     [id |-> stickers[i].id, qty |-> stickers[i].qty,
      price |-> Catalog[stickers[i].id].basePrice,
      total |-> NumberMul(Catalog[stickers[i].id].basePrice,
                          NumberOfNat(stickers[i].qty))]]

\* let total = 0; total += itemTotal for each item in turn: sum[i] is total
\* after i items.
SumTotals(items) ==
  LET sum[i \in 0..Len(items)] ==
        IF i = 0 THEN Zero ELSE NumberAdd(sum[i - 1], items[i].total)
  IN sum[Len(items)]

\* The orderItems of a custom order.
CustomItems == << [id |-> "custom", qty |-> 1, price |-> basePrice, total |-> basePrice] >>

----------------------------------------------------------------------------
(* Requests.                                                               *)

\* The postal address of every request (personal data).
ShippingAddress == "1 Main St, Portland"

MkInput(route, shape, agentId, payerWallet, paymentTxHash, stickers, shippingCost) ==
  [route |-> route, shape |-> shape, agentId |-> agentId,
   payerWallet |-> payerWallet, paymentTxHash |-> paymentTxHash,
   stickers |-> stickers, shippingCost |-> shippingCost]

OkList == << [id |-> "heartbeat-ok", qty |-> 1] >>
BadList == << [id |-> "retired", qty |-> 1] >>

TxHashes == {"0xaa", "0xAA", "0xbb", "0xcc"}

\* The request bodies tried on POST /api/order: a malformed one, one without
\* agent id, one with neither agent id nor wallet, one without wallet, one for
\* an unregistered agent, one whose wallet is not the agent's owner but which
\* paid, and the owner's requests.
CatalogInputs ==
  { MkInput("catalog", "bad", "1", "0xA1", "0xaa", OkList, 372),
    MkInput("catalog", "ok", None, "0xA1", "0xaa", OkList, 372),
    MkInput("catalog", "ok", None, None, "0xaa", OkList, 372),
    MkInput("catalog", "ok", "1", None, "0xaa", OkList, 372),
    MkInput("catalog", "ok", "2", "0xA1", "0xaa", OkList, 372),
    MkInput("catalog", "ok", "1", "0xb2", "0xbb", OkList, 0),
    MkInput("catalog", "ok", "1", "0xa1", "0xaa", OkList, 372) }
  \cup { MkInput("catalog", "ok", "1", "0xA1", tx, OkList, c) :
           tx \in TxHashes \cup {None}, c \in {0, 372} }
  \cup { MkInput("catalog", "ok", "1", "0xA1", tx, BadList, 372) :
           tx \in TxHashes \cup {None} }

\* The request bodies tried on POST /api/order/custom.
CustomInputs ==
  { MkInput("custom", "noImage", "1", "0xA1", "0xaa", << >>, 372),
    MkInput("custom", "noShipping", "1", "0xA1", "0xaa", << >>, 372),
    MkInput("custom", "ok", None, "0xA1", "0xaa", << >>, 372),
    MkInput("custom", "ok", "1", None, "0xaa", << >>, 372),
    MkInput("custom", "ok", "2", "0xA1", "0xaa", << >>, 372),
    MkInput("custom", "ok", "1", "0xb2", "0xbb", << >>, 0) }
  \cup { MkInput("custom", "ok", "1", "0xA1", tx, << >>, c) :
           tx \in TxHashes \cup {None}, c \in {0, 372} }

Inputs == CatalogInputs \cup CustomInputs

NoInput == MkInput(None, None, None, None, None, << >>, 0)

NoResp == [status |-> 0, body |-> [error |-> None]]

NoAgentCheck == [verified |-> FALSE, error |-> None, owner |-> None]

\* A request that has not arrived yet.
IdleReq ==
  [pc |-> "idle", in |-> NoInput, agentCheck |-> NoAgentCheck,
   replayClear |-> FALSE, finalTotal |-> Zero, orderItems |-> << >>,
   paymentInfo |-> NotVerified(None, 0, None), orderId |-> Null,
   printfulOrderId |-> Null, printfulThrew |-> FALSE,
   itemsTxId |-> Null, itemsRef |-> None, metadataRef |-> None,
   mintFailed |-> FALSE,
   calls |-> {}, resp |-> NoResp]

VARIABLES
  req,      \* the state of each request handler (its locals and its response)
  orders,   \* the rows of table orders
  lookup,   \* the response to the latest order lookup
  memo,     \* the values of the pricing and payment functions, computed once
  calc,     \* a direct call of the pricing and payment functions
  eas,      \* the fields of the attestation service singleton
  printful  \* the orders the fulfillment provider holds, by external id

vars == <<req, orders, lookup, memo, calc, eas, registry, printful>>

\* res.status(s).json(body) and return; the upload references go out of scope.
Respond(q, status, body) ==
  [q EXCEPT !.pc = "done", !.resp = [status |-> status, body |-> body],
            !.itemsTxId = Null, !.itemsRef = None, !.metadataRef = None]

\* The payment instructions of a 402.
PaymentInstructions ==
  [wallet |-> CLAWYARD_WALLET, chain |-> "base", token |-> "USDC",
   tokenAddress |-> "0x833589fCD6eDb6E08f4c7C32D4f71b54bdA02913"]

----------------------------------------------------------------------------
(* POST /api/order and POST /api/order/custom (server.js).                 *)

\* Handlers that ask for the wallet before they ask for the agent id.
EarlyRejectWalletFirst(in) ==
  IF in.shape # "ok" THEN [status |-> 400, body |-> [error |-> "validation"]]
  ELSE IF in.payerWallet = None
    THEN [status |-> 400, body |-> [error |-> "Wallet address required"]]
  ELSE IF in.agentId = None
    THEN [status |-> 403, body |-> [error |-> "Agent verification required"]]
  ELSE NoResp

\* The checks made before the first await: request shape, agent id, wallet.
\* The response of the rejection, or NoResp when the request passes.
EarlyReject(in) ==
  IF in.route = "catalog" THEN
    IF in.shape # "ok" THEN [status |-> 400, body |-> [error |-> "validation"]]
    ELSE IF in.agentId = None
      THEN [status |-> 403, body |-> [error |-> "Agent verification required"]]
    ELSE IF in.payerWallet = None
      THEN [status |-> 400, body |-> [error |-> "Wallet address required"]]
    ELSE NoResp
  ELSE
    IF in.shape = "noImage"
      THEN [status |-> 400, body |-> [error |-> "imageUrl is required"]]
    ELSE IF in.agentId = None
      THEN [status |-> 403, body |-> [error |-> "Agent verification required"]]
    ELSE IF in.shape = "noShipping"
      THEN [status |-> 400,
            body |-> [error |-> "shippingMethod and shippingCost are required"]]
    ELSE IF in.payerWallet = None
      THEN [status |-> 400, body |-> [error |-> "Wallet address required"]]
    ELSE NoResp

\* A request with body `in` arrives (requests are numbered in their order of
\* arrival); the handler runs up to `await verifyAgent(...)`.
ReceiveBody(r, in) ==
  /\ req[r].pc = "idle"
  /\ \A p \in Reqs : p < r => req[p].pc # "idle"
  /\ req' = [req EXCEPT ![r] =
                IF EarlyReject(in) # NoResp
                  THEN Respond([@ EXCEPT !.in = in], EarlyReject(in).status,
                               EarlyReject(in).body)
                  ELSE [@ EXCEPT !.pc = "verifyAgent", !.in = in,
                                 !.calls = @ \cup {"verifyAgent"}]]
  /\ UNCHANGED <<orders, lookup, memo, calc, eas, registry, printful>>

\* A request arrives.
Receive(r) == \E in \in Inputs : ReceiveBody(r, in)

\* if (!agentCheck.verified) return 403
IdentityGateRejects(agentCheck) == ~agentCheck.verified

\* A handler that does not consult the ledger before the Payment Verifier.
ReplayGateOff(rows, paymentTxHash) == FALSE

\* if (paymentTxHash && db.getOrderByTxHash(paymentTxHash)) return 400
ReplayGateRejects(rows, paymentTxHash) ==
  paymentTxHash # None /\ getOrderByTxHash(rows, paymentTxHash) # {}

\* The Number read from the shippingCost numeral of the body (the model
\* keeps the numeral in cents).
ShippingCost(shippingCost) == NumberOfDecimal(shippingCost, 2)

\* total + shippingCost (catalog), basePrice + shippingCost (custom); the
\* custom route takes the cost as the body gives it, and the sum with a
\* negative cost is the difference of the two positive Numbers.
FinalTotal(route, stickers, shippingCost) ==
  IF route = "catalog"
    THEN NumberAdd(SumTotals(PriceItems(stickers)), ShippingCost(shippingCost))
  ELSE IF shippingCost < 0
    THEN NumberSub(basePrice, ShippingCost(0 - shippingCost))
  ELSE NumberAdd(basePrice, ShippingCost(shippingCost))

\* The pricing inputs of the request bodies, and the amounts a handler can
\* demand of the Payment Verifier.
PricedInputs == {<<in.route, in.stickers, in.shippingCost>> : in \in Inputs}
ExpectedAmounts == {FinalTotal(p[1], p[2], p[3]) : p \in PricedInputs}

\* The pricing and payment functions on the arguments the handlers call them
\* with; they are deterministic, so that the handlers below read the value of
\* a call from this table.
Memo ==
  [FinalTotal |-> [p \in PricedInputs |-> FinalTotal(p[1], p[2], p[3])],
   PriceItems |-> [s \in {in.stickers : in \in CatalogInputs} |-> PriceItems(s)],
   CustomItems |-> CustomItems,
   ToFixed2 |-> [x \in ExpectedAmounts |-> ToFixed2(x)],
   verifyPayment |->
     [c \in TxHashes \X ExpectedAmounts |-> verifyPayment(c[1], c[2], TRUE)]]

\* A handler that waives the shipping cost once the ledger holds an order.
FinalTotalReturningCustomer(in) ==
  IF orders # {} THEN memo.FinalTotal[in.route, in.stickers, 0]
  ELSE memo.FinalTotal[in.route, in.stickers, in.shippingCost]

\* const finalTotal = ... of the handler of request body `in`
FinalTotalOf(in) == memo.FinalTotal[in.route, in.stickers, in.shippingCost]

\* await verifyPayment(paymentTxHash, finalTotal)
VerifyPaymentCall(txHash, expectedAmountUSD, rpcOk) ==
  IF rpcOk THEN memo.verifyPayment[txHash, expectedAmountUSD]
  ELSE verifyPayment(txHash, expectedAmountUSD, FALSE)

\* No direct call has been made.
NoCalc == [op |-> None]

\* The handler from the answer of verifyAgent to `await verifyPayment(...)`.
AfterIdentity(q, agentCheck, rows) ==
  LET q1 == [q EXCEPT !.agentCheck = agentCheck] IN
  IF IdentityGateRejects(agentCheck)
    THEN Respond(q1, 403, [error |-> "Agent verification failed",
                           message |-> agentCheck.error])
  ELSE IF ReplayGateRejects(rows, q.in.paymentTxHash)
    THEN Respond(q1, 400, [error |-> "already been used"])
  ELSE IF q.in.paymentTxHash = None
    THEN Respond(q1, 402, [error |-> "Payment required",
                           message |-> "Send USDC on Base to our wallet",
                           paymentInfo |-> PaymentInstructions])
  ELSE IF q.in.route = "catalog" /\ InvalidSticker(q.in.stickers)
    THEN Respond([q1 EXCEPT !.replayClear = TRUE], 400, [error |-> "Invalid sticker"])
  ELSE [q1 EXCEPT !.pc = "verifyPayment",
                  !.replayClear = TRUE,
                  !.finalTotal = FinalTotalOf(q.in),
                  !.orderItems = IF q.in.route = "catalog"
                                   THEN memo.PriceItems[q.in.stickers]
                                   ELSE memo.CustomItems,
                  !.calls = @ \cup {"verifyPayment"}]

\* The registry answers (or the call fails).
AgentResolved(r) ==
  /\ req[r].pc = "verifyAgent"
  /\ \E rpcOk \in BOOLEAN :
       req' = [req EXCEPT ![r] =
                 AfterIdentity(@, verifyAgent(@.in.agentId, @.in.payerWallet, rpcOk),
                               orders)]
  /\ UNCHANGED <<orders, lookup, memo, calc, eas, registry, printful>>

\* A handler that goes on whatever the Payment Verifier answered.
PaymentGateOpen(paymentInfo) == FALSE

\* if (!paymentInfo.verified) return 402
PaymentGateRejects(paymentInfo) == ~paymentInfo.verified

\* A draft that stores the wallet the client declared.
OrderDraftDeclaredWallet(q, paymentInfo) ==
  [wallet |-> q.in.payerWallet,
   items |-> q.orderItems,
   shippingAddress |-> ShippingAddress,
   totalUSDC |-> memo.ToFixed2[q.finalTotal],
   agentId |-> q.in.agentId,
   paymentTxHash |-> paymentInfo.transactionHash]

\* The argument of db.createOrder.
OrderDraft(q, paymentInfo) ==
  [wallet |-> paymentInfo.from,
   items |-> q.orderItems,
   shippingAddress |-> ShippingAddress,
   totalUSDC |-> memo.ToFixed2[q.finalTotal],
   agentId |-> q.in.agentId,
   paymentTxHash |-> paymentInfo.transactionHash]

\* The body of a 402 after a failed payment verification.
PaymentFailedBody(q, paymentInfo) ==
  IF q.in.route = "catalog"
    THEN [error |-> "Payment verification failed", message |-> paymentInfo.error,
          expectedAmount |-> memo.ToFixed2[q.finalTotal],
          paymentInfo |-> [wallet |-> CLAWYARD_WALLET, chain |-> "base",
                           token |-> "USDC"]]
    ELSE [error |-> "Payment verification failed", message |-> paymentInfo.error,
          expectedAmount |-> memo.ToFixed2[q.finalTotal]]

\* A handler that inserts the order before it looks at the verifier's answer.
LedgerCommitBeforeGate(rows, q, r, paymentInfo) ==
  IF \E o \in rows : o.tx_hash = q.in.paymentTxHash THEN rows
  ELSE rows \cup
         {[id |-> r, wallet |-> q.in.payerWallet, items |-> q.orderItems,
           shipping_address |-> ShippingAddress,
           total_usdc |-> memo.ToFixed2[q.finalTotal],
           agent_id |-> q.in.agentId, tx_hash |-> q.in.paymentTxHash,
           printful_order_id |-> Null, attestation_uid |-> Null,
           status |-> "pending"]}

\* The ledger after the handler ran from the answer of verifyPayment to
\* `await printfulService.createOrder(...)`; r stands for the uuid drawn.
LedgerAfterPayment(rows, q, r, paymentInfo) ==
  IF PaymentGateRejects(paymentInfo) THEN rows
  ELSE IF UniqueIndexViolated(rows, paymentInfo.transactionHash) THEN rows
  ELSE createOrder(rows, r, OrderDraft(q, paymentInfo))

\* The handler over the same stretch: 402, or the insert throws and the
\* catch answers 500, or the order is committed and fulfillment is called.
AfterPayment(q, r, paymentInfo, rows) ==
  LET q1 == [q EXCEPT !.paymentInfo = paymentInfo] IN
  IF PaymentGateRejects(paymentInfo)
    THEN Respond(q1, 402, PaymentFailedBody(q, paymentInfo))
  ELSE IF UniqueIndexViolated(rows, paymentInfo.transactionHash)
    THEN Respond([q1 EXCEPT !.calls = @ \cup {"db.createOrder"}], 500,
                 [error |-> "Order creation failed"])
  ELSE [q1 EXCEPT !.pc = "printful", !.orderId = Some(r),
                  !.calls = @ \cup {"db.createOrder", "printful.createOrder"}]

\* The node answers with the receipt (or the call fails).
PaymentResolved(r) ==
  /\ req[r].pc = "verifyPayment"
  /\ \E rpcOk \in BOOLEAN :
       LET info == VerifyPaymentCall(req[r].in.paymentTxHash, req[r].finalTotal,
                                     rpcOk) IN
         /\ req' = [req EXCEPT ![r] = AfterPayment(@, r, info, orders)]
         /\ orders' = LedgerAfterPayment(orders, req[r], r, info)
  /\ UNCHANGED <<lookup, memo, calc, eas, registry, printful>>

\* A handler that removes the order when the fulfillment provider fails.
LedgerAfterPrintfulRollback(rows, q, ok) ==
  IF ok THEN updateOrderPrintful(rows, q.orderId[1], q.orderId)
  ELSE {o \in rows : o.id # q.orderId[1]}

\* The ledger after the answer of the fulfillment provider: the provider's
\* order id is recorded, or (catalog route only) the failure is.
LedgerAfterPrintful(rows, q, ok) ==
  IF ok THEN updateOrderPrintful(rows, q.orderId[1], q.orderId)
  ELSE IF q.in.route = "catalog"
    THEN updateOrderStatus(rows, q.orderId[1], "printful_failed")
  ELSE rows

\* The answers of the provider to createOrder of printful.js: both posts
\* succeed; POST /orders is refused; POST /orders creates the draft and
\* POST /orders/{id}/confirm fails.
PrintfulOutcomes == {"confirmed", "refused", "unconfirmed"}

\* The provider's orders after printfulService.createOrder for orderId.
PrintfulCreateOrder(provider, orderId, outcome) ==
  IF outcome = "refused" THEN provider
  ELSE provider \cup {[external_id |-> orderId,
                       status |-> IF outcome = "confirmed" THEN "confirmed"
                                  ELSE "draft"]}

\* printfulService.createOrder resolves (both posts succeeded) or rejects;
\* the handler goes on to `await uploadItems(...)`.  The provider's order id
\* is named after ours.
PrintfulAnswers(r, outcome) ==
  /\ req[r].pc = "printful"
  /\ LET ok == (outcome = "confirmed") IN
       /\ printful' = PrintfulCreateOrder(printful, req[r].orderId[1], outcome)
       /\ orders' = LedgerAfterPrintful(orders, req[r], ok)
       /\ req' = [req EXCEPT ![r] =
                    [@ EXCEPT !.pc = "upload",
                              !.printfulOrderId = IF ok THEN req[r].orderId ELSE Null,
                              !.printfulThrew = ~ok,
                              !.calls = @ \cup
                                 (IF ok THEN {"db.updateOrderPrintful"}
                                  ELSE IF req[r].in.route = "catalog"
                                    THEN {"db.updateOrderStatus"} ELSE {})
                                 \cup {"uploadItems"}]]
  /\ UNCHANGED <<lookup, memo, calc, eas, registry>>

\* The provider takes the order or refuses it.  A rejection after the draft
\* was created leaves the handler and the ledger as a refusal does; it is
\* told apart where the provider's orders are looked at (FulfillSpec).
PrintfulResolved(r) ==
  \E outcome \in {"confirmed", "refused"} : PrintfulAnswers(r, outcome)

\* POST /orders created the draft and POST /orders/{id}/confirm failed.
PrintfulConfirmFails(r) == PrintfulAnswers(r, "unconfirmed")

UploadOutcomes == {"id", "stub", "throw"}

\* Handlers that keep the initial '' of itemsRef when the items are not uploaded.
UploadRefsNoSummary(route, o1, o2) ==
  IF o1 = "throw" \/ o2 = "throw"
    THEN [itemsRef |-> IF o1 = "id" /\ route = "custom" THEN "arweave" ELSE "",
          metadataRef |-> ""]
  ELSE [itemsRef |-> IF o1 = "id" THEN "arweave" ELSE "",
        metadataRef |-> IF o2 = "id" THEN "arweave" ELSE ""]

\* itemsRef and metadataRef after the two uploads; an outcome is an id, the
\* empty id of the stubbed uploader, or an exception.
UploadRefs(route, o1, o2) ==
  LET first == IF o1 = "id" THEN "arweave" ELSE "summary" IN
  IF o1 = "throw" THEN [itemsRef |-> "summary", metadataRef |-> ""]
  ELSE IF o2 = "throw"
    THEN [itemsRef |-> IF route = "catalog" THEN "summary" ELSE first,
          metadataRef |-> ""]
  ELSE [itemsRef |-> first, metadataRef |-> IF o2 = "id" THEN "arweave" ELSE ""]

\* The uploads finish; the handler goes on to `await easService.mintAttestation`.
UploadsResolved(r) ==
  /\ req[r].pc = "upload"
  /\ \E o1 \in UploadOutcomes, o2 \in UploadOutcomes :
       req' = [req EXCEPT ![r] =
                 [@ EXCEPT !.pc = "mint",
                           !.itemsTxId = IF o1 = "id" THEN Some("id")
                                         ELSE IF o1 = "stub" THEN Some("")
                                         ELSE Null,
                           !.itemsRef = UploadRefs(req[r].in.route, o1, o2).itemsRef,
                           !.metadataRef = UploadRefs(req[r].in.route, o1, o2).metadataRef,
                           !.calls = @ \cup
                              (IF o1 = "throw" THEN {} ELSE {"uploadMetadata"})
                              \cup {"mintAttestation"}]]
  /\ UNCHANGED <<orders, lookup, memo, calc, eas, registry, printful>>

\* The attestationData the handler passes to the minter.
AttestationData(q) ==
  [orderId |-> q.orderId[1], buyer |-> q.paymentInfo.from, agentId |-> q.in.agentId,
   storeName |-> "clawyard", providerName |-> "printful",
   paymentToken |-> "0x833589fCD6eDb6E08f4c7C32D4f71b54bdA02913",
   paymentAmount |-> q.finalTotal, orderDate |-> "now",
   itemsRef |-> q.itemsRef, metadataRef |-> q.metadataRef]

\* A handler in which a failed mint reaches the outer catch.
RespondCreatedMintFatal(q, mint) ==
  [q EXCEPT !.pc = "done", !.mintFailed = ~mint.ok,
            !.itemsTxId = Null, !.itemsRef = None, !.metadataRef = None,
            !.resp = IF mint.ok
                       THEN [status |-> 201,
                             body |-> [orderId |-> q.orderId,
                                       attestationUID |-> mint.uid]]
                       ELSE [status |-> 500,
                             body |-> [error |-> "Order creation failed"]]]

\* The 201 response; mint is the outcome of mintAttestation.
RespondCreated(q, mint) ==
  Respond([q EXCEPT !.mintFailed = ~mint.ok,
                    !.calls = @ \cup (IF mint.ok THEN {"db.updateOrderAttestation"}
                                      ELSE {})],
          201,
          [orderId |-> q.orderId,
           printfulOrderId |-> q.printfulOrderId,
           attestationUID |-> mint.uid,
           total |-> memo.ToFixed2[q.finalTotal],
           items |-> q.orderItems,
           status |-> "pending",
           payment |-> [verified |-> TRUE, from |-> q.paymentInfo.from,
                        transactionHash |-> q.paymentInfo.transactionHash]]
          @@ (IF q.in.route = "custom" THEN [type |-> "custom"] ELSE << >>))

\* A ledger from which a failed mint removes the order.
LedgerAfterMintRollback(rows, q, mint) ==
  IF mint.ok THEN updateOrderAttestation(rows, q.orderId[1], mint.uid)
  ELSE {o \in rows : o.id # q.orderId[1]}

\* The ledger after the answer of the minter.
LedgerAfterMint(rows, q, mint) ==
  IF mint.ok THEN updateOrderAttestation(rows, q.orderId[1], mint.uid) ELSE rows

\* The handler from the answer of mintAttestation to the 201; initOk and
\* attestOk are whether the attestation service can be initialized and
\* whether it accepts an attestation.
MintStep(r, initOk, attestOk) ==
  /\ req[r].pc = "mint"
  /\ LET mint == mintAttestation(AttestationData(req[r]), initOk, attestOk) IN
       /\ orders' = LedgerAfterMint(orders, req[r], mint)
       /\ req' = [req EXCEPT ![r] =
                    RespondCreated(
                      [@ EXCEPT !.calls = @ \cup (IF initOk THEN ensureSchema(eas).calls
                                                  ELSE {})],
                      mint)]
       /\ eas' = IF initOk
                   THEN ensureSchema([eas EXCEPT !.initialized = TRUE]).service
                   ELSE eas
  /\ UNCHANGED <<lookup, memo, calc, registry, printful>>

\* mintAttestation resolves or rejects; the handler responds.
MintResolved(r) ==
  \E initOk \in BOOLEAN, attestOk \in BOOLEAN : MintStep(r, initOk, attestOk)

----------------------------------------------------------------------------
(* GET /api/order/:id                                                      *)

LookupWallets == {None, "0xa1", "0xA1", "0xb2"}

\* order.payerWallet?.toLowerCase()
OrderPayerWallet(order) ==
  IF "payerWallet" \in DOMAIN order THEN ToLower(order.payerWallet) ELSE "undefined"

\* const { shippingAddress, ...safeOrder } = order
SafeOrder(order) == [f \in (DOMAIN order) \ {"shippingAddress"} |-> order[f]]

\* The response of the lookup route of server.js.
LookupResponse(rows, orderId, wallet) ==
  IF getOrder(rows, orderId) = {}
    THEN [status |-> 404, body |-> [error |-> "Order not found"]]
  ELSE
    LET order == CHOOSE o \in getOrder(rows, orderId) : TRUE IN
    IF wallet = None \/ ToLower(wallet) # OrderPayerWallet(order)
      THEN [status |-> 403, body |-> [error |-> "Wallet mismatch"]]
      ELSE [status |-> 200, body |-> SafeOrder(order)]

\* The response of the lookup route of the second copy of the server.
LegacyLookupResponse(rows, orderId) ==
  IF getOrder(rows, orderId) = {}
    THEN [status |-> 404, body |-> [error |-> "Order not found"]]
    ELSE [status |-> 200, body |-> CHOOSE o \in getOrder(rows, orderId) : TRUE]

\* GET /api/order/:id?wallet=... on server.js
Lookup(orderId, wallet) ==
  /\ lookup' = LookupResponse(orders, orderId, wallet)
  /\ UNCHANGED <<req, orders, memo, calc, eas, registry, printful>>

\* GET /api/order/:id on the second copy of the server
LookupLegacy(orderId) ==
  /\ lookup' = LegacyLookupResponse(orders, orderId)
  /\ UNCHANGED <<req, orders, memo, calc, eas, registry, printful>>

----------------------------------------------------------------------------

Init ==
  /\ req = [r \in Reqs |-> IdleReq]
  /\ orders = {}
  /\ lookup = NoResp
  /\ memo = Memo
  /\ calc = NoCalc
  /\ eas = EASService
  /\ registry = RegistryOwner
  /\ printful = {}

Next ==
  \/ \E r \in Reqs : Receive(r)
  \/ \E r \in Reqs : AgentResolved(r)
  \/ \E r \in Reqs : PaymentResolved(r)
  \/ \E r \in Reqs : PrintfulResolved(r)
  \/ \E r \in Reqs : UploadsResolved(r)
  \/ \E r \in Reqs : MintResolved(r)
  \/ \E id \in Reqs, w \in LookupWallets : Lookup(id, w)
  \/ \E id \in Reqs : LookupLegacy(id)

Spec == Init /\ [][Next]_vars

----------------------------------------------------------------------------
(* The order routes when a collaborator may never answer.  The registry    *)
(* and the node are read through viem's http transport, which gives up     *)
(* after its default timeout, so that verifyAgent and verifyPayment always *)
(* settle.  The fulfillment client (axios.create without timeout) and the  *)
(* attestation client (transaction.wait()) set no limit, and the handlers  *)
(* wrap no call in a timer: a handler whose call is never answered stays   *)
(* at its await.  The event loop runs every continuation whose call has    *)
(* settled, hence the weak fairness of the handlers' steps.                *)

\* The request bodies tried: a catalog and a custom order by the agent's
\* owner, each with a settled payment of its total, and one without payment.
LiveInputs ==
  { MkInput("catalog", "ok", "1", "0xA1", "0xaa", OkList, 372),
    MkInput("custom", "ok", "1", "0xA1", "0xbb", << >>, 0),
    MkInput("custom", "ok", "1", "0xA1", None, << >>, 372) }

\* printfulAPI.post('/orders', ...) is never answered.
PrintfulNeverAnswers(r) ==
  /\ req[r].pc = "printful"
  /\ req' = [req EXCEPT ![r].pc = "printful (no answer)"]
  /\ UNCHANGED <<orders, lookup, memo, calc, eas, registry, printful>>

\* The transaction awaited in ensureSchema / mintAttestation is never mined.
MintNeverAnswers(r) ==
  /\ req[r].pc = "mint"
  /\ req' = [req EXCEPT ![r].pc = "mint (no answer)"]
  /\ UNCHANGED <<orders, lookup, memo, calc, eas, registry, printful>>

LiveNext ==
  \/ \E r \in Reqs, in \in LiveInputs : ReceiveBody(r, in)
  \/ \E r \in Reqs : AgentResolved(r)
  \/ \E r \in Reqs : PaymentResolved(r)
  \/ \E r \in Reqs : PrintfulResolved(r)
  \/ \E r \in Reqs : PrintfulNeverAnswers(r)
  \/ \E r \in Reqs : UploadsResolved(r)
  \/ \E r \in Reqs : MintResolved(r)
  \/ \E r \in Reqs : MintNeverAnswers(r)

\* A call that is under way is answered or is not; the continuation of an
\* answered call runs.
LiveSpec ==
  /\ Init /\ [][LiveNext]_vars
  /\ \A r \in Reqs :
       /\ WF_vars(AgentResolved(r))
       /\ WF_vars(PaymentResolved(r))
       /\ WF_vars(PrintfulResolved(r) \/ PrintfulNeverAnswers(r))
       /\ WF_vars(UploadsResolved(r))
       /\ WF_vars(MintResolved(r) \/ MintNeverAnswers(r))

----------------------------------------------------------------------------
(* The order routes while agent tokens change hands in the registry.       *)

\* The requests tried: for agent 1, by the first owner who paid 0xaa and by
\* the later owner who paid 0xbb.
RegistryInputs ==
  { MkInput("catalog", "ok", "1", "0xA1", "0xaa", OkList, 372),
    MkInput("catalog", "ok", "1", "0xb2", "0xbb", OkList, 0),
    MkInput("custom", "ok", "1", "0xb2", "0xbb", << >>, 0) }

\* The wallets a token is transferred between.
Owners == {"0xA1", "0xB2"}

\* transferFrom on the registry: the token of agentId goes to newOwner.
TransferAgent(agentId, newOwner) ==
  /\ registry[agentId] # newOwner
  /\ registry' = [registry EXCEPT ![agentId] = newOwner]
  /\ UNCHANGED <<req, orders, lookup, memo, calc, eas, printful>>

RegistryNext ==
  \/ \E r \in Reqs, in \in RegistryInputs : ReceiveBody(r, in)
  \/ \E r \in Reqs : AgentResolved(r)
  \/ \E r \in Reqs : PaymentResolved(r)
  \/ \E r \in Reqs : PrintfulResolved(r)
  \/ \E r \in Reqs : UploadsResolved(r)
  \/ \E r \in Reqs : MintResolved(r)
  \/ \E a \in DOMAIN RegistryOwner, w \in Owners : TransferAgent(a, w)

RegistrySpec == Init /\ [][RegistryNext]_vars

----------------------------------------------------------------------------
(* The order routes and the orders of the fulfillment provider.            *)

\* The requests tried: the owner's, on either route, each with its payment.
FulfillInputs ==
  { MkInput("catalog", "ok", "1", "0xA1", "0xaa", OkList, 372),
    MkInput("custom", "ok", "1", "0xA1", "0xbb", << >>, 0) }

FulfillNext ==
  \/ \E r \in Reqs, in \in FulfillInputs : ReceiveBody(r, in)
  \/ \E r \in Reqs : AgentResolved(r)
  \/ \E r \in Reqs : PaymentResolved(r)
  \/ \E r \in Reqs : PrintfulResolved(r)
  \/ \E r \in Reqs : PrintfulConfirmFails(r)
  \/ \E r \in Reqs : UploadsResolved(r)
  \/ \E r \in Reqs : MintResolved(r)

FulfillSpec == Init /\ [][FulfillNext]_vars

----------------------------------------------------------------------------
(* Concurrent calls of easService.mintAttestation (eas.js): a call runs    *)
(* from one await to the next, and the calls interleave at the awaits.     *)

\* Number of calls made before any of them has finished.
NumCalls == 3

Calls == 1..NumCalls

\* The calls are made: each will start with `if (!this.initialized)`.
\* initializations and registrations count the runs of the body of
\* initialize() and the calls of schemaRegistry.register.
MintCallsArrive ==
  /\ calc = NoCalc
  /\ calc' = [op |-> "mintAttestation",
              call |-> [c \in Calls |-> [pc |-> "start", schemaUID |-> Null]],
              initializations |-> 0, registrations |-> 0]
  /\ UNCHANGED <<req, orders, lookup, memo, eas, registry, printful>>

\* if (!this.initialized) await this.initialize(): the body of initialize
\* runs up to `await this.loadWalletKey()`.
MintEnters(c) ==
  /\ calc.op = "mintAttestation" /\ calc.call[c].pc = "start"
  /\ calc' = IF eas.initialized
               THEN [calc EXCEPT !.call[c].pc = "ensureSchema"]
               ELSE [calc EXCEPT !.call[c].pc = "initialize",
                                 !.initializations = @ + 1]
  /\ UNCHANGED <<req, orders, lookup, memo, eas, registry, printful>>

\* The rest of initialize(): this.initialized = true, or it throws and the
\* call is rejected.
InitializeEnds(c, initOk) ==
  /\ calc.op = "mintAttestation" /\ calc.call[c].pc = "initialize"
  /\ eas' = IF initOk THEN [eas EXCEPT !.initialized = TRUE] ELSE eas
  /\ calc' = [calc EXCEPT !.call[c].pc = IF initOk THEN "ensureSchema" ELSE "rejected"]
  /\ UNCHANGED <<req, orders, lookup, memo, registry, printful>>

\* ensureSchema() up to its await: a known uid is returned, otherwise
\* schemaRegistry.register is called.
EnsureSchemaEnters(c) ==
  /\ calc.op = "mintAttestation" /\ calc.call[c].pc = "ensureSchema"
  /\ calc' = IF eas.schemaUID # Null
               THEN [calc EXCEPT !.call[c].pc = "attest",
                                 !.call[c].schemaUID = eas.schemaUID]
               ELSE [calc EXCEPT !.call[c].pc = "register",
                                 !.registrations = @ + 1]
  /\ UNCHANGED <<req, orders, lookup, memo, eas, registry, printful>>

\* The registry answers: this.schemaUID is the uid it returns, or the one
\* computed from the schema when it refuses; both are the uid of the schema.
RegisterAnswers(c) ==
  /\ calc.op = "mintAttestation" /\ calc.call[c].pc = "register"
  /\ eas' = [eas EXCEPT !.schemaUID = Some("ClawyardPurchase")]
  /\ calc' = [calc EXCEPT !.call[c].pc = "attest",
                          !.call[c].schemaUID = Some("ClawyardPurchase")]
  /\ UNCHANGED <<req, orders, lookup, memo, registry, printful>>

\* eas.attest({ schema: schemaUID, ... }) is answered.
AttestAnswers(c) ==
  /\ calc.op = "mintAttestation" /\ calc.call[c].pc = "attest"
  /\ calc' = [calc EXCEPT !.call[c].pc = "done"]
  /\ UNCHANGED <<req, orders, lookup, memo, eas, registry, printful>>

MintNext ==
  \/ MintCallsArrive
  \/ \E c \in Calls : MintEnters(c)
  \/ \E c \in Calls, initOk \in BOOLEAN : InitializeEnds(c, initOk)
  \/ \E c \in Calls : EnsureSchemaEnters(c)
  \/ \E c \in Calls : RegisterAnswers(c)
  \/ \E c \in Calls : AttestAnswers(c)

MintSpec == Init /\ [][MintNext]_vars

----------------------------------------------------------------------------
(* The operations of the Order Ledger (database.js), called directly.      *)

\* The ids of the rows inserted and asked for, and the values written.
LedgerIds == 1..2
LedgerStatuses == {"paid", "printful_failed"}
LedgerTxHashes == {"0xaa", "0xbb"}

\* db.createOrder(orderData): the uuid is new, and the insert fails on a
\* transaction hash the table holds.
CreateOrderCall(orderId, txHash) ==
  /\ ~Changed(orders, orderId)
  /\ ~UniqueIndexViolated(orders, txHash)
  /\ orders' = createOrder(orders, orderId,
                           [wallet |-> "0xa1", items |-> << >>,
                            shippingAddress |-> ShippingAddress,
                            totalUSDC |-> <<4, 2, 0>>, agentId |-> "1",
                            paymentTxHash |-> txHash])
  /\ calc' = [op |-> "createOrder", orderId |-> orderId, value |-> txHash,
              changed |-> TRUE]
  /\ UNCHANGED <<req, lookup, memo, eas, registry, printful>>

\* db.updateOrderStatus(orderId, status)
UpdateStatusCall(orderId, status) ==
  /\ orders' = updateOrderStatus(orders, orderId, status)
  /\ calc' = [op |-> "updateOrderStatus", orderId |-> orderId, value |-> status,
              changed |-> Changed(orders, orderId)]
  /\ UNCHANGED <<req, lookup, memo, eas, registry, printful>>

\* db.updateOrderPrintful(orderId, printfulOrderId)
UpdatePrintfulCall(orderId) ==
  /\ orders' = updateOrderPrintful(orders, orderId, Some("printful"))
  /\ calc' = [op |-> "updateOrderPrintful", orderId |-> orderId,
              value |-> Some("printful"), changed |-> Changed(orders, orderId)]
  /\ UNCHANGED <<req, lookup, memo, eas, registry, printful>>

\* db.updateOrderAttestation(orderId, attestationUID)
UpdateAttestationCall(orderId) ==
  /\ orders' = updateOrderAttestation(orders, orderId, Some("uid"))
  /\ calc' = [op |-> "updateOrderAttestation", orderId |-> orderId,
              value |-> Some("uid"), changed |-> Changed(orders, orderId)]
  /\ UNCHANGED <<req, lookup, memo, eas, registry, printful>>

LedgerNext ==
  \/ \E id \in LedgerIds, tx \in LedgerTxHashes : CreateOrderCall(id, tx)
  \/ \E id \in LedgerIds, st \in LedgerStatuses : UpdateStatusCall(id, st)
  \/ \E id \in LedgerIds : UpdatePrintfulCall(id)
  \/ \E id \in LedgerIds : UpdateAttestationCall(id)

LedgerSpec == Init /\ [][LedgerNext]_vars

----------------------------------------------------------------------------
(* The verifiers and the pricing of the catalog route, called on their     *)
(* own: one call of verifyAgent, one call of verifyPayment, or one pricing *)
(* followed by the call of verifyPayment for its total.                    *)

\* The largest quantity of an item that is priced.
MaxQty == 3

\* The amounts (in cents) verifyPayment is asked for.
ExpectedCents == {420, 427, 428, 470, 500, 792, 1000, 1260}

\* The transactions whose receipts are presented to it.
PayHashes == {"0xaa", "0xbb", "0xe1", "0xe2", "0xe3", "0xe4", "0xe5", "0xe6", "0xe7"}

\* The agent ids and wallets verifyAgent is asked about.
AgentIds == {"1", "2", "abc"}
AgentWallets == {"0xA1", "0xa1", "0xb2"}

\* The item lists priced: one or two lines of the active sticker.
QuoteLists ==
  { << [id |-> "heartbeat-ok", qty |-> q] >> : q \in 1..MaxQty }
  \cup { << [id |-> "heartbeat-ok", qty |-> q1], [id |-> "heartbeat-ok", qty |-> q2] >> :
           q1 \in 1..MaxQty, q2 \in 1..MaxQty }

\* The shipping costs (in cents) declared.
QuoteShippingCosts == {0, 7, 372}

\* BigInt(transferLog.data) of the transfer matched in the receipt of txHash.
TransferredAmount(txHash) ==
  LET logs == GetTransactionReceipt(txHash).logs
  IN logs[FindTransferLog(logs)].data

\* verifyPayment(txHash, expectedAmountUSD) for an expected amount written
\* with two decimals (c cents).
VerifyAmount(c, txHash) ==
  /\ calc = NoCalc
  /\ calc' = [op |-> "verifyPayment", expectedCents |-> c, txHash |-> txHash,
              amountRaw |-> TransferredAmount(txHash),
              result |-> verifyPayment(txHash, NumberOfDecimal(c, 2), TRUE)]
  /\ UNCHANGED <<req, orders, lookup, memo, eas, registry, printful>>

\* The pricing of a catalog request: the loop over the items, finalTotal and
\* the total written on the order.
PriceOrder(stickers, shippingCost) ==
  /\ calc = NoCalc
  /\ calc' = [op |-> "price", stickers |-> stickers, shippingCost |-> shippingCost,
              finalTotal |-> FinalTotal("catalog", stickers, shippingCost),
              totalUSDC |-> ToFixed2(FinalTotal("catalog", stickers, shippingCost))]
  /\ UNCHANGED <<req, orders, lookup, memo, eas, registry, printful>>

\* await verifyPayment(paymentTxHash, finalTotal) for the total just priced.
VerifyQuoted(txHash) ==
  /\ calc.op = "price"
  /\ calc' = [op |-> "verifyQuoted", stickers |-> calc.stickers,
              shippingCost |-> calc.shippingCost, finalTotal |-> calc.finalTotal,
              totalUSDC |-> calc.totalUSDC, txHash |-> txHash,
              amountRaw |-> TransferredAmount(txHash),
              result |-> verifyPayment(txHash, calc.finalTotal, TRUE)]
  /\ UNCHANGED <<req, orders, lookup, memo, eas, registry, printful>>

\* verifyAgent(agentId, walletAddress) called directly.
VerifyAgentCall(agentId, walletAddress, rpcOk) ==
  /\ calc = NoCalc
  /\ calc' = [op |-> "verifyAgent", agentId |-> agentId,
              walletAddress |-> walletAddress, rpcOk |-> rpcOk,
              result |-> verifyAgent(agentId, walletAddress, rpcOk)]
  /\ UNCHANGED <<req, orders, lookup, memo, eas, registry, printful>>

\* The shipping costs (in cents) a custom request declares, and the
\* transactions it refers to.
CustomShippingCosts == {0 - 372, 0, 372}
CustomPayHashes == {"0xbb", "0xe8"}

\* The pricing of a custom request: const finalTotal = basePrice + shippingCost
PriceCustom(shippingCost) ==
  /\ calc = NoCalc
  /\ calc' = [op |-> "priceCustom", shippingCost |-> shippingCost,
              finalTotal |-> FinalTotal("custom", << >>, shippingCost),
              totalUSDC |-> ToFixed2(FinalTotal("custom", << >>, shippingCost))]
  /\ UNCHANGED <<req, orders, lookup, memo, eas, registry, printful>>

\* await verifyPayment(paymentTxHash, finalTotal) of the custom route.
VerifyCustom(txHash) ==
  /\ calc.op = "priceCustom"
  /\ calc' = [op |-> "verifyCustom", shippingCost |-> calc.shippingCost,
              finalTotal |-> calc.finalTotal, totalUSDC |-> calc.totalUSDC,
              txHash |-> txHash,
              result |-> verifyPayment(txHash, calc.finalTotal, TRUE)]
  /\ UNCHANGED <<req, orders, lookup, memo, eas, registry, printful>>

\* The events a receipt presented to verifyPayment is made of: two USDC
\* transfers to the store (7.92 from 0xa1, 4.20 from 0xb2, the token address
\* in either case), a transfer of another token to the store, a USDC
\* transfer to another address and a USDC approval of the store.
MaxLogs == 3
LogEvents ==
  { [address |-> "0xUSDC", topic0 |-> TRANSFER_TOPIC,
     from |-> "0xa1", to |-> "0xc1a3", data |-> 7920000],
    [address |-> "0xusdc", topic0 |-> TRANSFER_TOPIC,
     from |-> "0xb2", to |-> "0xC1A3", data |-> 4200000],
    [address |-> "0xdai", topic0 |-> TRANSFER_TOPIC,
     from |-> "0xb2", to |-> "0xc1a3", data |-> 9990000],
    [address |-> "0xusdc", topic0 |-> TRANSFER_TOPIC,
     from |-> "0xa1", to |-> "0xb2", data |-> 9990000],
    [address |-> "0xusdc", topic0 |-> "Approval(address,address,uint256)",
     from |-> "0xa1", to |-> "0xc1a3", data |-> 9990000] }
LogLists == UNION {[1..n -> LogEvents] : n \in 0..MaxLogs}

\* The amounts (in cents) expected of such a receipt.
LogExpectedCents == {420, 792}

\* verifyPayment for a transaction whose successful receipt holds `logs`.
VerifyLogs(logs, c) ==
  /\ calc = NoCalc
  /\ calc' = [op |-> "verifyLogs", logs |-> logs, expectedCents |-> c,
              result |-> VerifyReceipt([status |-> "success", logs |-> logs],
                                       "0xf0", NumberOfDecimal(c, 2))]
  /\ UNCHANGED <<req, orders, lookup, memo, eas, registry, printful>>

\* The references looked up: a settled transaction, a reverted one and one
\* the chain does not know.
LookupHashes == {"0xaa", "0xcc", "0xdd"}

\* verifyPayment(txHash, 7.92); rpcOk is whether getTransactionReceipt returned.
VerifyLookup(txHash, rpcOk) ==
  /\ calc = NoCalc
  /\ calc' = [op |-> "verifyLookup", txHash |-> txHash, rpcOk |-> rpcOk,
              result |-> verifyPayment(txHash, NumberOfDecimal(792, 2), rpcOk)]
  /\ UNCHANGED <<req, orders, lookup, memo, eas, registry, printful>>

PayNext ==
  \/ \E a \in AgentIds, w \in AgentWallets, rpcOk \in BOOLEAN :
       VerifyAgentCall(a, w, rpcOk)
  \/ \E logs \in LogLists, c \in LogExpectedCents : VerifyLogs(logs, c)
  \/ \E h \in LookupHashes, rpcOk \in BOOLEAN : VerifyLookup(h, rpcOk)
  \/ \E c \in CustomShippingCosts : PriceCustom(c)
  \/ \E h \in CustomPayHashes : VerifyCustom(h)
  \/ \E c \in ExpectedCents, h \in PayHashes : VerifyAmount(c, h)
  \/ \E s \in QuoteLists, c \in QuoteShippingCosts : PriceOrder(s, c)
  \/ \E h \in PayHashes : VerifyQuoted(h)

PaySpec == Init /\ [][PayNext]_vars

----------------------------------------------------------------------------
(* Properties.                                                             *)

Done(r) == req[r].pc = "done"

\* The rows created by request r (its uuid is modelled by r).
OrderOf(r) == {o \in orders : o.id = r}

\* Whether the collaborators, when they answer, let the request through every
\* gate: the wallet owns the agent, a reference is given, the items exist and
\* the referenced transaction pays the computed total.
WouldPass(in) ==
  /\ in.shape = "ok" /\ in.agentId # None /\ in.payerWallet # None
  /\ verifyAgent(in.agentId, in.payerWallet, TRUE).verified
  /\ in.paymentTxHash # None
  /\ in.route = "catalog" => ~InvalidSticker(in.stickers)
  /\ VerifyPaymentCall(in.paymentTxHash, FinalTotalOf(in), TRUE).verified

\* The senders of the store's USDC transfers in the receipt of a transaction.
StoreTransferSenders(txHash) ==
  LET logs == GetTransactionReceipt(txHash).logs IN
    {logs[i].from : i \in {j \in 1..Len(logs) : IsStoreTransfer(logs[j])}}

\* The statuses of a rejection at a hard gate.
GateStatuses == {400, 402, 403, 404}

\* The side effects of a handler past the commit.
EffectCalls ==
  {"db.createOrder", "db.updateOrderPrintful", "db.updateOrderStatus",
   "db.updateOrderAttestation", "printful.createOrder", "uploadItems",
   "uploadMetadata", "mintAttestation"}

\* C1: no two distinct orders of the ledger have the same non-null
\* payment transaction hash (tx_hash).
C1_UniquePaymentReference ==
  \A a \in orders, b \in orders :
    (a.id # b.id /\ a.tx_hash # None) => a.tx_hash # b.tx_hash

\* C1 witness: two requests raced on one hash; the insert of the second was
\* refused by the index, and the ledger holds the first one's order.
C1_Witness ==
  \E r \in Reqs, o \in orders :
    /\ Done(r) /\ "db.createOrder" \in req[r].calls /\ OrderOf(r) = {}
    /\ o.id # r /\ o.tx_hash = req[r].in.paymentTxHash

\* C2 (as claimed): of two requests that carry the same payment reference and
\* would each pass every gate, one is answered 201 and the other 400.
C2_OneCreatedOtherRejected400 ==
  \A r1 \in Reqs, r2 \in Reqs :
    ( /\ r1 # r2 /\ Done(r1) /\ Done(r2)
      /\ req[r1].in.paymentTxHash = req[r2].in.paymentTxHash
      /\ WouldPass(req[r1].in) /\ WouldPass(req[r2].in)
      /\ req[r1].resp.status \notin {402, 403}
      /\ req[r2].resp.status \notin {402, 403} )
    => {req[r1].resp.status, req[r2].resp.status} = {201, 400}

\* C3: an order row exists only if the request that created it had its
\* agent verified for the claimed wallet, found the reference unconsumed, and
\* had the payment of that reference verified against its own computed total;
\* every row carries the consumed reference.
C3_OrderOnlyAfterAllGates ==
  \A o \in orders :
    LET q == req[o.id] IN
      /\ q.pc \notin {"idle", "verifyAgent", "verifyPayment"}
      /\ q.agentCheck.verified
      /\ q.agentCheck = verifyAgent(q.in.agentId, q.in.payerWallet, TRUE)
      /\ q.replayClear
      /\ q.paymentInfo.verified
      /\ q.paymentInfo
           = VerifyPaymentCall(q.in.paymentTxHash, FinalTotalOf(q.in), TRUE)
      /\ o.tx_hash = q.in.paymentTxHash /\ o.tx_hash # None

\* C3 witness: one request was committed while another, whose payment did
\* not verify, was answered 402 and left no row.
C3_Witness ==
  \E o \in orders, r \in Reqs :
    /\ Done(r) /\ req[r].resp.status = 402
    /\ "verifyPayment" \in req[r].calls /\ OrderOf(r) = {}

\* A well-formed request for a registered agent whose claimed wallet is not
\* the registry's owner of the agent.
WrongWallet(in) ==
  /\ in.shape = "ok" /\ in.agentId \in DOMAIN RegistryOwner /\ in.payerWallet # None
  /\ ToLower(RegistryOwner[in.agentId]) # ToLower(in.payerWallet)

\* C4: a request whose claimed wallet is not the registry-resolved owner of
\* its agent creates no order and is answered 403.
C4_WrongWalletRejected ==
  \A r \in Reqs :
    WrongWallet(req[r].in) =>
      /\ OrderOf(r) = {}
      /\ Done(r) => req[r].resp.status = 403

\* C4 witness: such a request, whose payment reference verifies for its
\* total, was answered 403.
C4_Witness ==
  \E r \in Reqs :
    /\ Done(r) /\ WrongWallet(req[r].in) /\ req[r].resp.status = 403
    /\ VerifyPaymentCall(req[r].in.paymentTxHash, FinalTotalOf(req[r].in),
                         TRUE).verified

\* C5: the wallet of every order, and the payer of every 201 response, is
\* the sender of the store transfer matched by the Payment Verifier.
C5_WalletIsTransferSender ==
  /\ \A o \in orders :
       /\ o.wallet = req[o.id].paymentInfo.from
       /\ o.wallet \in StoreTransferSenders(req[o.id].in.paymentTxHash)
  /\ \A r \in Reqs :
       (Done(r) /\ req[r].resp.status = 201) =>
         /\ req[r].resp.body.payment.from = req[r].paymentInfo.from
         /\ req[r].resp.body.payment.from
              \in StoreTransferSenders(req[r].in.paymentTxHash)

\* C5 witness: a 201 whose payer is another address than the wallet the
\* client declared.
C5_Witness ==
  \E r \in Reqs, o \in orders :
    /\ Done(r) /\ req[r].resp.status = 201 /\ o.id = r
    /\ ToLower(o.wallet) # ToLower(req[r].in.payerWallet)

\* C6: a request rejected at a hard gate has made no ledger write and no
\* fulfillment, upload or mint call, and the step that rejects it leaves the
\* ledger as it was.
C6_RejectionHasNoEffect ==
  /\ [](\A r \in Reqs :
          (Done(r) /\ req[r].resp.status \in GateStatuses) =>
            (OrderOf(r) = {} /\ req[r].calls \cap EffectCalls = {}))
  /\ [][\A r \in Reqs :
          (~Done(r) /\ req'[r].pc = "done" /\ req'[r].resp.status \in GateStatuses)
            => orders' = orders]_vars

\* C6 witness: a request was rejected by the replay guard while the ledger
\* held an order.
C6_Witness ==
  \E r \in Reqs :
    /\ Done(r) /\ req[r].resp.status = 400 /\ req[r].agentCheck.verified
    /\ req[r].in.paymentTxHash # None /\ ~req[r].replayClear
    /\ orders # {}

\* C7 (as claimed): when fulfillment submission failed, the request is
\* answered 201, the order is in the ledger and its status records the failure.
C7_FulfillmentFailureRecorded ==
  \A r \in Reqs :
    (Done(r) /\ req[r].printfulThrew) =>
      /\ req[r].resp.status = 201
      /\ \E o \in OrderOf(r) : o.status \in {"fulfillment_failed", "printful_failed"}

\* C8: when receipt minting failed, the request is answered 201 with a null
\* attestation reference and its order is in the ledger with a null one.
C8_MintFailureKeepsOrder ==
  \A r \in Reqs :
    (Done(r) /\ req[r].mintFailed) =>
      /\ req[r].resp.status = 201
      /\ req[r].resp.body.attestationUID = Null
      /\ \E o \in OrderOf(r) : o.attestation_uid = Null /\ o.tx_hash # None

\* C8 witness: a request whose mint failed has been answered.
C8_Witness ==
  \E r \in Reqs :
    /\ Done(r) /\ req[r].mintFailed /\ "mintAttestation" \in req[r].calls
    /\ OrderOf(r) # {}

\* C9 (as claimed): a 201 names the transfer's sender as payer, the computed
\* total in two decimals, and the status "paid" or "fulfilled".
C9_CreatedResponse ==
  \A r \in Reqs :
    (Done(r) /\ req[r].resp.status = 201) =>
      /\ req[r].resp.body.payment.from
           \in StoreTransferSenders(req[r].in.paymentTxHash)
      /\ req[r].resp.body.total = memo.ToFixed2[FinalTotalOf(req[r].in)]
      /\ req[r].resp.body.status \in {"paid", "fulfilled"}

\* C10 (as claimed): no lookup response contains a shipping-address field.
C10_LookupHidesShippingAddress ==
  "shippingAddress" \notin DOMAIN lookup.body

\* C11 (as claimed): a lookup of an unknown order is answered 404; a lookup
\* of a known order is answered 200 when the wallet given equals, up to case,
\* the wallet that placed the order, and 403 when it is absent or another.
C11_LookupOwnerOnly ==
  [][\A id \in Reqs, w \in LookupWallets :
       Lookup(id, w) =>
         lookup'.status =
           IF OrderOf(id) = {} THEN 404
           ELSE IF w # None /\ \E o \in OrderOf(id) : ToLower(o.wallet) = ToLower(w)
             THEN 200
           ELSE 403]_vars

\* C13 (as claimed): every 402 of the order routes carries payment
\* instructions that hold the receiving address, the chain identifier and the
\* token contract.
C13_Every402CarriesInstructions ==
  \A r \in Reqs :
    (Done(r) /\ req[r].resp.status = 402) =>
      /\ "paymentInfo" \in DOMAIN req[r].resp.body
      /\ {"wallet", "chain", "tokenAddress"} \subseteq DOMAIN req[r].resp.body.paymentInfo

\* The fields of a response that state an amount to pay.
PriceFields == {"price", "amount", "expectedAmount", "total", "totalUSDC"}

\* C14 (as claimed): a request without payment reference that passed the
\* identity gate is answered 402 with payment instructions stating the price,
\* the receiving address and the token.
C14_MissingReferenceStatesPrice ==
  \A r \in Reqs :
    ( /\ Done(r) /\ req[r].agentCheck.verified
      /\ EarlyReject(req[r].in) = NoResp /\ req[r].in.paymentTxHash = None ) =>
      /\ req[r].resp.status = 402
      /\ "paymentInfo" \in DOMAIN req[r].resp.body
      /\ {"wallet", "token"} \subseteq DOMAIN req[r].resp.body.paymentInfo
      /\ PriceFields \cap (DOMAIN req[r].resp.body
                            \cup DOMAIN req[r].resp.body.paymentInfo) # {}

\* The order of the statuses; 'printful_failed' is the code's name of the
\* status fulfillment_failed.
StatusRank ==
  [s \in {"pending", "paid", "fulfillment_failed", "printful_failed", "fulfilled"} |->
     CASE s = "pending" -> 0 [] s = "paid" -> 1 [] OTHER -> 2]

\* C16: the status of every order is one of pending, paid,
\* fulfillment_failed, fulfilled, and a step leaves the status of an order as
\* it is or moves it forward along pending -> paid -> {fulfillment_failed,
\* fulfilled}.
C16_StatusOnlyMovesForward ==
  /\ [](\A o \in orders : o.status \in DOMAIN StatusRank)
  /\ [][\A o \in orders : \A n \in orders' :
          n.id = o.id =>
            \/ n.status = o.status
            \/ StatusRank[n.status] > StatusRank[o.status]]_vars

\* C16 witness: the status of an order has moved to the failure status, its
\* request was answered, and the provider's id was later recorded on another
\* order.
C16_Witness ==
  \E o \in orders, p \in orders :
    /\ o.status = "printful_failed" /\ Done(o.id)
    /\ p.id > o.id /\ p.printful_order_id # Null /\ p.status = "pending"

\* C17: a step removes no order from the ledger and changes the id, wallet,
\* items, shipping address, total and payment reference of none.
C17_CommittedOrderImmutable ==
  [][\A o \in orders : \E n \in orders' :
       /\ n.id = o.id /\ n.wallet = o.wallet /\ n.items = o.items
       /\ n.shipping_address = o.shipping_address
       /\ n.total_usdc = o.total_usdc /\ n.tx_hash = o.tx_hash]_vars

\* C17 witness: an order whose request was answered is in the ledger after
\* its fulfillment failed, after another request was answered and after a lookup.
C17_Witness ==
  \E o \in orders, r \in Reqs :
    /\ Done(o.id) /\ req[o.id].printfulThrew
    /\ r # o.id /\ Done(r) /\ "verifyPayment" \in req[r].calls
    /\ lookup.status = 403

\* A custom request whose handler has computed its total.
PricedCustom(r) ==
  req[r].in.route = "custom" /\ "verifyPayment" \in req[r].calls

\* The total a 201 or a 402 after payment verification states.
QuotedTotal(q) ==
  IF q.resp.status = 201 THEN q.resp.body.total ELSE q.resp.body.expectedAmount

\* C19: two custom requests with the same shipping cost (the base price is
\* fixed) compute the same total, and state the same total in their responses,
\* whatever was ordered before and whatever the ledger holds.
C19_CustomTotalIgnoresHistory ==
  \A r1 \in Reqs, r2 \in Reqs :
    ( /\ PricedCustom(r1) /\ PricedCustom(r2)
      /\ req[r1].in.shippingCost = req[r2].in.shippingCost ) =>
      /\ req[r1].finalTotal = req[r2].finalTotal
      /\ ( /\ Done(r1) /\ Done(r2)
           /\ req[r1].resp.status \in {201, 402}
           /\ req[r2].resp.status \in {201, 402} )
           => QuotedTotal(req[r1]) = QuotedTotal(req[r2])

\* C19 witness: a custom request was priced and committed, and a later
\* custom request with the same shipping cost was priced while the ledger
\* held that order.
C19_Witness ==
  \E r1 \in Reqs, r2 \in Reqs :
    /\ r1 < r2 /\ PricedCustom(r1) /\ PricedCustom(r2)
    /\ req[r1].in.shippingCost = 372 /\ req[r2].in.shippingCost = 372
    /\ Done(r1) /\ req[r1].resp.status = 201 /\ OrderOf(r1) # {}
    /\ Done(r2) /\ req[r2].resp.status = 402

\* C20 (as claimed): when the attestation service works (it can be
\* initialized and accepts the attestation), the request is answered 201 with
\* a non-null attestation reference, and that reference is the one stored on
\* the order.
C20_WorkingLedgerGivesReceipt ==
  [][\A r \in Reqs :
       MintStep(r, TRUE, TRUE) =>
         /\ req'[r].resp.status = 201
         /\ req'[r].resp.body.attestationUID # Null
         /\ \E o \in orders' :
              o.id = r /\ o.attestation_uid = req'[r].resp.body.attestationUID]_vars

\* An amount of n cents written with two decimals.
DigitsOfCents(n) == <<n \div 100, (n \div 10) % 10, n % 10>>

\* C12 (as claimed): verifyPayment verifies a matched transfer if and only
\* if its amount is at least the expected amount times (1 - t/100), whatever
\* it exceeds it by, and a rejection discloses the expected and the received
\* amount.
C12_VerifiedIffWithinTolerance ==
  calc.op = "verifyPayment" =>
    /\ calc.result.verified <=>
         calc.amountRaw >= calc.expectedCents * (100 - TolerancePercent)
                             * 10 ^ (USDC_DECIMALS - 4)
    /\ ~calc.result.verified =>
         calc.result.error =
           <<"Insufficient payment", DigitsOfCents(calc.expectedCents),
             DigitsOfCents((calc.amountRaw + 5000) \div 10000)>>

\* The total of an order in cents: the sum of price times quantity over the
\* items, plus the shipping cost.
CentsTotal(stickers, shippingCost) ==
  LET sum[i \in 0..Len(stickers)] ==
        IF i = 0 THEN 0 ELSE sum[i - 1] + StickerPriceCents * stickers[i].qty
  IN sum[Len(stickers)] + shippingCost

\* C18 (as claimed): the total of a catalog order is the two-decimal sum of
\* price times quantity over the items plus the shipping cost; the total
\* written on the order and in the response is that value, and so is the amount
\* demanded of the Payment Verifier.
C18_TotalIsFixedPointSum ==
  /\ calc.op \in {"price", "verifyQuoted"} =>
       /\ calc.totalUSDC = DigitsOfCents(CentsTotal(calc.stickers, calc.shippingCost))
       /\ calc.finalTotal
            = NumberOfDecimal(CentsTotal(calc.stickers, calc.shippingCost), 2)
  /\ calc.op = "verifyQuoted" =>
       calc.result.verified <=>
         calc.amountRaw >= CentsTotal(calc.stickers, calc.shippingCost)
                             * (100 - TolerancePercent) * 10 ^ (USDC_DECIMALS - 4)

\* C15 (as claimed): every request that has arrived is eventually answered,
\* also when a collaborator never answers.
C15_EveryRequestAnswered ==
  \A r \in Reqs : (req[r].pc # "idle") ~> Done(r)

\* C21 (as claimed): the wallet of every order (the sender of the verified
\* transfer) is the registry's owner of the order's agent.
C21_OrderWalletOwnsAgent ==
  \A o \in orders :
    /\ o.agent_id \in DOMAIN RegistryOwner
    /\ ToLower(RegistryOwner[o.agent_id]) = ToLower(o.wallet)

\* C22: when the registry answers with the owner of the agent, verifyAgent
\* returns verified = TRUE if and only if the owner equals the wallet up to
\* the case of the letters, and on a mismatch it returns the owner; it never
\* returns verified = TRUE otherwise.
C22_VerifiedIffOwner ==
  calc.op = "verifyAgent" =>
    /\ calc.result.verified =>
         /\ calc.agentId \in DOMAIN RegistryOwner
         /\ ToLower(RegistryOwner[calc.agentId]) = ToLower(calc.walletAddress)
    /\ (calc.rpcOk /\ calc.agentId \in DOMAIN RegistryOwner) =>
         IF ToLower(RegistryOwner[calc.agentId]) = ToLower(calc.walletAddress)
           THEN calc.result.verified
           ELSE /\ ~calc.result.verified
                /\ calc.result.owner = RegistryOwner[calc.agentId]

\* C22 witness: the wallet was spelled in another case than the registry's
\* owner and was verified.
C22_Witness ==
  /\ calc.op = "verifyAgent" /\ calc.result.verified
  /\ calc.walletAddress # RegistryOwner[calc.agentId]

C24_MissingIdentityRejectedEarly ==
  \A r \in Reqs :
    (req[r].pc # "idle" /\ req[r].in.shape = "ok") =>
      /\ req[r].in.agentId = None =>
           Done(r) /\ req[r].resp.status = 403 /\ req[r].calls = {}
      /\ (req[r].in.agentId # None /\ req[r].in.payerWallet = None) =>
           Done(r) /\ req[r].resp.status = 400 /\ req[r].calls = {}

\* C24 witness: a request with neither agent id nor wallet was answered 403,
\* and one with an agent id and no wallet 400.
C24_Witness ==
  \E r1 \in Reqs, r2 \in Reqs :
    /\ Done(r1) /\ req[r1].in.shape = "ok"
    /\ req[r1].in.agentId = None /\ req[r1].in.payerWallet = None
    /\ req[r1].resp.status = 403
    /\ Done(r2) /\ req[r2].in.shape = "ok"
    /\ req[r2].in.agentId # None /\ req[r2].in.payerWallet = None
    /\ req[r2].resp.status = 400

\* C25: when the handler of a request with a verified agent comes to the
\* Replay Guard and the ledger holds an order with the request's payment
\* reference, the request is answered 400 and the Payment Verifier is not
\* called for it.
C25_ReplayGuardBeforeVerifier ==
  [][\A r \in Reqs :
       ( /\ req[r].pc = "verifyAgent" /\ req'[r].pc # "verifyAgent"
         /\ req'[r].agentCheck.verified
         /\ \E o \in orders : o.tx_hash = req[r].in.paymentTxHash ) =>
         /\ req'[r].pc = "done" /\ req'[r].resp.status = 400
         /\ "verifyPayment" \notin req'[r].calls]_vars

\* C25 witness: a request was answered 400 for a reference that another
\* request's order holds, after the only call of verifyAgent.
C25_Witness ==
  \E r \in Reqs, o \in orders :
    /\ Done(r) /\ req[r].resp.status = 400
    /\ req[r].resp.body.error = "already been used"
    /\ req[r].calls = {"verifyAgent"}
    /\ o.id # r /\ o.tx_hash = req[r].in.paymentTxHash

\* C26 (as claimed): while fulfillment is being submitted for a request, its
\* order is in the ledger with status "paid"; a failure of the submission
\* moves the status to the failure status and leaves the order's reference,
\* wallet, total and existence as they were.
C26_FulfillmentAfterPaidCommit ==
  /\ [](\A r \in Reqs :
          req[r].pc = "printful" => \E o \in OrderOf(r) : o.status = "paid")
  /\ [][\A r \in Reqs :
          (req[r].pc = "printful" /\ req'[r].pc = "upload" /\ req'[r].printfulThrew) =>
            \E o \in OrderOf(r) : \E n \in orders' :
              /\ n.id = r
              /\ n.status \in {"fulfillment_failed", "printful_failed"}
              /\ n.tx_hash = o.tx_hash /\ n.wallet = o.wallet
              /\ n.total_usdc = o.total_usdc]_vars

\* C27: a 201 is sent only by the step that receives the answer of the mint,
\* after the fulfillment call and the uploads have been made and answered;
\* and when fulfillment or the mint fails, the committed order stays in the
\* ledger with its reference, wallet and total.
C27_CreatedAfterBothAttempts ==
  [][\A r \in Reqs :
       /\ (req[r].resp.status # 201 /\ req'[r].resp.status = 201) =>
            /\ req[r].pc = "mint"
            /\ {"printful.createOrder", "uploadItems", "mintAttestation"}
                 \subseteq req[r].calls
       /\ ( \/ (req[r].pc = "printful" /\ req'[r].printfulThrew)
            \/ (req[r].pc = "mint" /\ req'[r].mintFailed) ) =>
            \A o \in OrderOf(r) : \E n \in orders' :
              /\ n.id = r /\ n.tx_hash = o.tx_hash /\ n.wallet = o.wallet
              /\ n.total_usdc = o.total_usdc]_vars

\* C27 witness: a request is answered 201 after its fulfillment and its mint
\* both failed, and its order is in the ledger.
C27_Witness ==
  \E r \in Reqs :
    /\ Done(r) /\ req[r].resp.status = 201
    /\ req[r].printfulThrew /\ req[r].mintFailed
    /\ OrderOf(r) # {}

\* C28 (as claimed): no order request's handler registers a schema with the
\* schema registry; its mint only uses a schema identifier already known.
C28_NoRegistrationOnRequestPath ==
  \A r \in Reqs : "schemaRegistry.register" \notin req[r].calls

\* The fields of the attestation record of the specification.
ReceiptFields ==
  {"orderId", "buyer", "agentId", "storeName", "providerName", "paymentToken",
   "paymentAmount", "orderDate", "itemsRef", "metadataRef"}

\* C29 (as claimed): when the handler calls the minter and the attestation
\* ledger works, the record published carries the ten fields of the
\* specification, each equal to the field the handler passes, the payment
\* amount being the order total times 10^6.
C29_ReceiptCarriesOrderFields ==
  \A r \in Reqs :
    req[r].pc = "mint" =>
      LET data == AttestationData(req[r])
          record == EncodeData(data)
      IN /\ record # Null
         /\ DOMAIN record = ReceiptFields
         /\ \A f \in ReceiptFields \ {"paymentAmount"} : record[f] = data[f]
         /\ record.paymentAmount =
              MathFloor(NumberMul(req[r].finalTotal, NumberOfNat(1000000)))

StoreTransfers(logs) == SelectSeq(logs, IsStoreTransfer)

\* The outcome of verifyPayment on a successful receipt holding `logs`.
OutcomeOf(logs, c) ==
  VerifyReceipt([status |-> "success", logs |-> logs], "0xf0", NumberOfDecimal(c, 2))

\* C31: verified, payer and amount of verifyPayment are those it gives for
\* the receipt stripped of every event that is not a USDC transfer to the
\* store, wherever those events stand; with no such transfer it fails with
\* "No USDC transfer to Clawyard wallet found".
C31_UnrelatedEventsIgnored ==
  calc.op = "verifyLogs" =>
    /\ calc.result.verified = OutcomeOf(StoreTransfers(calc.logs), calc.expectedCents).verified
    /\ calc.result.from = OutcomeOf(StoreTransfers(calc.logs), calc.expectedCents).from
    /\ calc.result.amount = OutcomeOf(StoreTransfers(calc.logs), calc.expectedCents).amount
    /\ StoreTransfers(calc.logs) = << >> =>
         /\ ~calc.result.verified
         /\ calc.result.error = "No USDC transfer to Clawyard wallet found"

\* C31 witness: a receipt whose transfer to the store stands between two
\* unrelated events is verified.
C31_Witness ==
  /\ calc.op = "verifyLogs" /\ Len(calc.logs) = 3
  /\ ~IsStoreTransfer(calc.logs[1]) /\ IsStoreTransfer(calc.logs[2])
  /\ ~IsStoreTransfer(calc.logs[3])
  /\ calc.result.verified /\ calc.result.from = "0xa1"

\* C32: verifyPayment answers verified = FALSE with "Transaction not found"
\* for a reference the chain does not know, with "Transaction failed" for a
\* receipt whose status is not success, and with "Verification failed" when
\* the lookup throws.
C32_LookupFailuresDeny ==
  calc.op = "verifyLookup" =>
    /\ calc.result.verified \in BOOLEAN
    /\ ~calc.rpcOk =>
         ~calc.result.verified /\ calc.result.error = "Verification failed"
    /\ (calc.rpcOk /\ ToLower(calc.txHash) \notin DOMAIN Receipts) =>
         ~calc.result.verified /\ calc.result.error = "Transaction not found"
    /\ (calc.rpcOk /\ ToLower(calc.txHash) \in DOMAIN Receipts
          /\ Receipts[ToLower(calc.txHash)].status # "success") =>
         ~calc.result.verified /\ calc.result.error = "Transaction failed"

\* C32 witness: the reverted transaction has been looked up and denied.
C32_Witness ==
  /\ calc.op = "verifyLookup" /\ calc.rpcOk /\ calc.txHash = "0xcc"
  /\ ~calc.result.verified

\* Whether amountRaw micro-USDC is at least c cents less the tolerance, in
\* exact arithmetic.
MeetsMinimum(amountRaw, c) ==
  amountRaw * 100 >= c * 10000 * (100 - TolerancePercent)

C33_OwnershipResolvedPerRequest ==
  [][\A r \in Reqs :
       (req[r].pc = "verifyAgent" /\ req'[r].pc # "verifyAgent"
          /\ req'[r].agentCheck.error # "Verification failed") =>
         /\ req'[r].agentCheck.verified
              = (ToLower(registry[req[r].in.agentId]) = ToLower(req[r].in.payerWallet))
         /\ ~req'[r].agentCheck.verified => req'[r].resp.status = 403]_vars

\* C33 witness: after agent 1 went from 0xA1 to 0xB2, a request of the former
\* owner was answered 403 and a request of the new owner passed the gate.
C33_Witness ==
  /\ registry["1"] = "0xB2"
  /\ \E r, s \in Reqs :
       /\ req[r].in.payerWallet = "0xA1" /\ Done(r) /\ req[r].resp.status = 403
       /\ req[s].in.payerWallet = "0xb2" /\ req[s].agentCheck.verified

\* The column an update operation writes.
OwnField(op) ==
  CASE op = "updateOrderStatus" -> "status"
    [] op = "updateOrderPrintful" -> "printful_order_id"
    [] op = "updateOrderAttestation" -> "attestation_uid"

\* C34: an update of the ledger leaves the table without the row with the
\* given id as it was; of that row it sets its own column to the value given
\* and updated_at to the time of the update and keeps every other column; it
\* reports a change exactly when the table holds the id.
C34_UpdateTouchesOwnFieldOnly ==
  [][calc'.op \in {"updateOrderStatus", "updateOrderPrintful", "updateOrderAttestation"} =>
       /\ {o \in orders' : o.id # calc'.orderId} = {o \in orders : o.id # calc'.orderId}
       /\ calc'.changed = (\E o \in orders : o.id = calc'.orderId)
       /\ ~calc'.changed => orders' = orders
       /\ \A o \in orders : o.id = calc'.orderId =>
            \E n \in orders' :
              /\ n.id = o.id
              /\ n[OwnField(calc'.op)] = calc'.value
              /\ n.updated_at = "CURRENT_TIMESTAMP"
              /\ \A f \in DOMAIN o \ {OwnField(calc'.op), "updated_at"} : n[f] = o[f]]_vars

\* C34 witness: two rows are in the table, one updated by each operation,
\* the other as it was inserted, and the latest update was of an id the
\* table held.
C34_Witness ==
  /\ calc.op = "updateOrderAttestation" /\ calc.changed
  /\ \E o \in orders, n \in orders :
       /\ o.id = calc.orderId /\ n.id # o.id
       /\ o.status = "paid" /\ o.printful_order_id # Null /\ o.attestation_uid # Null
       /\ n.status = "pending" /\ n.updated_at = "created_at"

\* C35 (as claimed): no two orders of the ledger were paid by the same
\* transaction, however its hash is spelled in their rows.
C35_TransactionConsumedOnce ==
  \A a \in orders, b \in orders :
    (a.id # b.id /\ a.tx_hash # None /\ b.tx_hash # None) =>
      ToLower(a.tx_hash) # ToLower(b.tx_hash)

\* C36 (as claimed): the total the custom route computes, demands of the
\* Payment Verifier and writes on the order is never below the base price
\* of 4.20, whatever shipping cost the request declares.
C36_CustomTotalAtLeastBasePrice ==
  calc.op \in {"priceCustom", "verifyCustom"} =>
    /\ ~NumberLess(calc.finalTotal, basePrice)
    /\ (calc.op = "verifyCustom" /\ calc.result.verified) =>
         calc.result.amount * 100 >= StickerPriceCents * 10000 * (100 - TolerancePercent)

\* C38 (as claimed): every order the fulfillment provider holds has its id
\* recorded on the order of the ledger it was created for, so that an order
\* whose submission failed has no order at the provider.
C38_ProviderOrderIsRecorded ==
  \A p \in printful :
    \E o \in orders : o.id = p.external_id /\ o.printful_order_id # Null

\* C39 (as claimed): however concurrent calls of mintAttestation interleave,
\* the body of initialize() runs at most once, schemaRegistry.register is
\* called at most once, and the calls that reach eas.attest use one schema
\* uid.
C39_InitializedAndRegisteredOnce ==
  calc.op = "mintAttestation" =>
    /\ calc.initializations <= 1
    /\ calc.registrations <= 1
    /\ \A c \in Calls, d \in Calls :
         (calc.call[c].schemaUID # Null /\ calc.call[d].schemaUID # Null) =>
           calc.call[c].schemaUID = calc.call[d].schemaUID

====
